---- MODULE Spec2Model ----
(***************************************************************************)
(* Inventory release application: the release, production and part HTTP    *)
(* handlers over the Part / Release / Production tables.                   *)
(*                                                                         *)
(* A request body is a record holding exactly the JSON fields the caller   *)
(* sent; a field the body lacks reads as JavaScript's undefined.           *)
(***************************************************************************)
EXTENDS Integers, Sequences, FiniteSets, TLC

VARIABLES
  parts,        \* Part table: id -> row
  releases,     \* Release table: id -> row
  productions,  \* Production table: the rows in creation order
  resp,         \* the response to the request handled last
  effects,      \* the external calls the request handled last made
  everShipped,  \* history: ids of stored releases whose status has been SHIPPED
  maxSeqIssued, \* history: the largest sequence number a release was created with
  inflight      \* POST /releases requests between two of their database calls:
                \* request -> the handler's position and local variables
VARIABLE
  dispatched    \* notification function -> how its last call ended
VARIABLE
  invoiceEmails \* history: the releases an invoice email was sent for, and
                \* those it was sent for more than once

vars == <<parts, releases, productions, resp, effects, everShipped, maxSeqIssued, inflight,
          dispatched, invoiceEmails>>

(***************************************************************************)
(* Bounds of the model.                                                    *)
(***************************************************************************)
MaxReleases == 3       \* Release rows stored at one time
MaxLedgerReleases == 1 \* Release rows the ledger requests keep stored at one time
MaxProductions == 1    \* Production rows ever created
MaxReqPallets == 1     \* largest pallets quantity a request names
MaxReqBoxes == 3       \* largest boxes quantity a request names
SeedBoxesPerPallet == 2
SeedUnitsPerBox == 2
SeedPallets == 5
SeedBoxes == 0

(***************************************************************************)
(* Values.                                                                 *)
(***************************************************************************)
Null == "<null>"
Today == "D1"
\* now.toISOString().split('T')[0].replace(/-/g, '')
DateStr == "20250120"

Admins == {"admin"}
Customers == {"cust1", "cust2"}
Users == Admins \cup Customers
\* "anon": no Authorization header, or one that is no Bearer header;
\* "badtoken": a Bearer token getUserFromToken resolves to no user.
Callers == Users \cup {"anon", "badtoken"}

\* the functions that send one notification: the SendGrid senders and the two
\* 'create job' webhook clients
EmailSenders ==
  {"sendReleaseNotification", "sendThreeZReleaseNotification", "sendThreeZShipNotification",
   "sendPackingSlipReadyNotification", "sendInvoiceReminderEmail"}
WebhookClients == {"createImpactJob", "createThreezPortalJob"}
DispatchFunctions == EmailSenders \cup WebhookClients

\* the POST /releases requests that can be in progress at once
Requests == {"req1", "req2"}
Idle == [pc |-> "idle"]

PartIds == {"p1"}
LocationIds == {"loc1"}
ReleaseIds == 1..MaxReleases

Role(u) == IF u \in Admins THEN "ADMIN" ELSE "CUSTOMER"

\* authHeader && authHeader.startsWith('Bearer ')
HasBearer(caller) == caller # "anon"

\* getUserFromToken(token): the user the token was issued to, or Null
TokenUser(caller) == IF caller \in Users THEN caller ELSE Null

Has(body, f) == f \in DOMAIN body
NoFields == [f \in {} |-> Null]
\* the bodies that may or may not carry field f with a value of S
Opt(f, S) == {NoFields} \cup {[x \in {f} |-> v] : v \in S}
Truthy(v) == v \notin {Null, ""}

(***************************************************************************)
(* The environment of one request: where a database call throws, and how   *)
(* each best-effort integration of release creation answers.               *)
(***************************************************************************)
NominalEnv ==
  [dbFail |-> "none", storage |-> "ok", buffers |-> "ok", email |-> "ok",
   threeZEmail |-> "ok", impactConfigured |-> TRUE, impact |-> "ok",
   portalConfigured |-> TRUE, portal |-> "ok"]

\* the environments in which one call fails, and the one in which all do:
\*   dbFail   the prisma call of the primary path that throws
\*   storage  the call of the storage block that throws
\*   buffers  generate...Buffer throws
\*   impact   "failed": createImpactJob returns success: false;
\*            "release.update": storing the job id throws
FaultEnvs ==
  {NominalEnv}
  \cup {[NominalEnv EXCEPT !.dbFail = f] : f \in {"release.create", "part.update"}}
  \cup {[NominalEnv EXCEPT !.storage = f] :
          f \in {"savePackingSlip", "saveBoxLabels", "release.update"}}
  \cup {[NominalEnv EXCEPT !.buffers = "throws"],
         [NominalEnv EXCEPT !.email = "throws"],
         [NominalEnv EXCEPT !.threeZEmail = "throws"],
         [NominalEnv EXCEPT !.impactConfigured = FALSE],
         [NominalEnv EXCEPT !.portalConfigured = FALSE],
         [NominalEnv EXCEPT !.portal = "rejects"]}
  \cup {[NominalEnv EXCEPT !.impact = f] : f \in {"failed", "release.update"}}
  \cup {[NominalEnv EXCEPT !.storage = "savePackingSlip", !.email = "throws",
                           !.threeZEmail = "throws", !.impact = "failed",
                           !.portal = "rejects"]}

Response(op, code, error) == [op |-> op, code |-> code, error |-> error]

(***************************************************************************)
(* POST /releases                                                          *)
(***************************************************************************)
DefaultPallets == 5

\* mutant: pallets ?? 0, a request without pallets asks for none
requestedPallets_NoDefault(body) ==
  IF Has(body, "pallets") THEN body.pallets ELSE 0

\* const requestedPallets = pallets || 5
requestedPallets(body) ==
  IF Has(body, "pallets") /\ body.pallets # 0 THEN body.pallets ELSE DefaultPallets

\* const requestedBoxes = boxes || 0
requestedBoxes(body) ==
  IF Has(body, "boxes") /\ body.boxes # 0 THEN body.boxes ELSE 0

\* mutant: customerPONumber === undefined for !customerPONumber
MissingRequired_EmptyPO(body) ==
  \/ ~Has(body, "partId") \/ ~Truthy(body.partId)
  \/ ~Has(body, "shippingLocationId") \/ ~Truthy(body.shippingLocationId)
  \/ ~Has(body, "customerPONumber")

\* !partId || !shippingLocationId || !customerPONumber
MissingRequired(body) ==
  \/ ~Has(body, "partId") \/ ~Truthy(body.partId)
  \/ ~Has(body, "shippingLocationId") \/ ~Truthy(body.shippingLocationId)
  \/ ~Has(body, "customerPONumber") \/ ~Truthy(body.customerPONumber)

\* mutant: the availability check lets every request through
InsufficientInventory_Never(part, reqPallets, reqBoxes) == FALSE

\* mutant: the boxes are not compared when the pallets are equal
InsufficientInventory_PalletsOnly(part, reqPallets, reqBoxes) ==
  part.currentPallets < reqPallets

InsufficientInventory(part, reqPallets, reqBoxes) ==
  \/ part.currentPallets < reqPallets
  \/ (part.currentPallets = reqPallets /\ part.currentBoxes < reqBoxes)

\* totalBoxesReleased * part.unitsPerBox
TotalUnits(part, pallets, boxes) ==
  (pallets * part.boxesPerPallet + boxes) * part.unitsPerBox

\* mutant: the boxes are taken from a pallet that is not counted off
ReleasedInventory_FreeBorrow(part, reqPallets, reqBoxes) ==
  LET newBoxes == part.currentBoxes - reqBoxes
  IN [currentPallets |-> part.currentPallets - reqPallets,
      currentBoxes |-> IF newBoxes < 0 THEN newBoxes + part.boxesPerPallet ELSE newBoxes]

\* mutant: no pallet is broken up when the loose boxes run out
ReleasedInventory_NoBorrow(part, reqPallets, reqBoxes) ==
  [currentPallets |-> part.currentPallets - reqPallets,
   currentBoxes |-> part.currentBoxes - reqBoxes]

\* the inventory written back after a release: newPallets, newBoxes
ReleasedInventory(part, reqPallets, reqBoxes) ==
  LET newPallets == part.currentPallets - reqPallets
      newBoxes == part.currentBoxes - reqBoxes
  IN IF newBoxes < 0
       THEN [currentPallets |-> newPallets - 1,
             currentBoxes |-> newBoxes + part.boxesPerPallet]
       ELSE [currentPallets |-> newPallets, currentBoxes |-> newBoxes]

\* String.prototype.padStart(width, fill), for a one-character fill
RECURSIVE PadStart(_, _, _)
PadStart(str, width, fill) ==
  IF Len(str) >= width THEN str ELSE PadStart(fill \o str, width, fill)

\* mutant: the increment is two
SequenceNumber_SkipOne(count) == count + 2

\* mutant: the count itself, without the increment
SequenceNumber_NoIncrement(count) == count

\* count + 1, for count = await prisma.release.count()
SequenceNumber(count) == count + 1

\* `REL-${dateStr}-${String(count + 1).padStart(4, '0')}`
ReleaseNumber(count) ==
  "REL-" \o DateStr \o "-" \o PadStart(ToString(SequenceNumber(count)), 4, "0")

\* `TKT-${String(count + 1).padStart(5, '0')}`
TicketNumber(count) == "TKT-" \o PadStart(ToString(SequenceNumber(count)), 5, "0")

\* the id of a new row: an identifier no stored row has
NewReleaseId == CHOOSE id \in ReleaseIds :
  /\ id \notin DOMAIN releases
  /\ \A j \in ReleaseIds \ DOMAIN releases : id <= j

\* prisma.release.create({ data: {...} })
NewRelease(user, body, part, count) ==
  [partId |-> body.partId,
   shippingLocationId |-> body.shippingLocationId,
   userId |-> user,
   pallets |-> requestedPallets(body),
   boxes |-> requestedBoxes(body),
   totalUnits |-> TotalUnits(part, requestedPallets(body), requestedBoxes(body)),
   releaseNumber |-> ReleaseNumber(count),
   ticketNumber |-> TicketNumber(count),
   customerPONumber |-> body.customerPONumber,
   shipDate |-> IF Has(body, "shipDate") /\ Truthy(body.shipDate)
                  THEN body.shipDate ELSE Today,
   status |-> "COMPLETED",
   trackingNumber |-> Null,
   invoiceSent |-> FALSE,
   packingSlipUrl |-> Null,
   boxLabelsUrl |-> Null,
   impactJobId |-> Null,
   customerPackingSlipName |-> Null]

\* the external calls of the best-effort phase, in the order the handler makes them
BestEffortCalls(env) ==
  (IF env.storage = "savePackingSlip" THEN {"savePackingSlip"}
                                      ELSE {"savePackingSlip", "saveBoxLabels"})
  \cup (IF env.buffers # "ok" THEN {}
        ELSE {"sendReleaseNotification", "sendThreeZReleaseNotification"}
             \cup (IF env.impactConfigured THEN {"createImpactJob"} ELSE {})
             \cup (IF env.portalConfigured THEN {"createThreezPortalJob"} ELSE {}))

\* the row after the best-effort phase stored what it obtained
AfterBestEffort(row, env) ==
  LET withUrls == IF env.storage = "ok"
                    THEN [row EXCEPT !.packingSlipUrl = "url", !.boxLabelsUrl = "url"]
                    ELSE row
  IN IF env.buffers = "ok" /\ env.impactConfigured /\ env.impact = "ok"
       THEN [withUrls EXCEPT !.impactJobId = "job"]
       ELSE withUrls

CreateRelease(caller, body, env) ==
  LET op == "POST /releases"
      Reject(code, error) ==
        /\ resp' = Response(op, code, error)
        /\ effects' = {}
        /\ UNCHANGED <<parts, releases, productions, everShipped, maxSeqIssued, inflight, dispatched, invoiceEmails>>
  IN
  IF ~HasBearer(caller) THEN Reject(401, "Unauthorized")
  ELSE IF TokenUser(caller) = Null THEN Reject(401, "Invalid token")
  ELSE IF MissingRequired(body)
    THEN Reject(400, "Part ID, shipping location ID, and Customer PO# are required")
  ELSE IF body.partId \notin DOMAIN parts THEN Reject(404, "Part not found")
  ELSE
    LET part == parts[body.partId]
        reqPallets == requestedPallets(body)
        reqBoxes == requestedBoxes(body)
    IN
    IF InsufficientInventory(part, reqPallets, reqBoxes)
      THEN Reject(400, "Insufficient inventory")
    ELSE IF env.dbFail = "release.create" \/ body.shippingLocationId \notin LocationIds
      THEN Reject(500, "An error occurred")
    ELSE
      LET count == Cardinality(DOMAIN releases)
          id == NewReleaseId
          row == NewRelease(TokenUser(caller), body, part, count)
          inv == ReleasedInventory(part, reqPallets, reqBoxes)
      IN
      /\ count < MaxReleases
      /\ UNCHANGED <<productions, everShipped, inflight, dispatched, invoiceEmails>>
      /\ maxSeqIssued' = IF SequenceNumber(count) > maxSeqIssued
                           THEN SequenceNumber(count) ELSE maxSeqIssued
      /\ IF env.dbFail = "part.update"
           THEN /\ releases' = (id :> row) @@ releases
                /\ parts' = parts
                /\ effects' = {}
                /\ resp' = Response(op, 500, "An error occurred")
           ELSE /\ releases' = (id :> AfterBestEffort(row, env)) @@ releases
                /\ parts' = [parts EXCEPT ![body.partId].currentPallets = inv.currentPallets,
                                          ![body.partId].currentBoxes = inv.currentBoxes]
                /\ effects' = BestEffortCalls(env)
                \* the response carries the object release.create returned
                /\ resp' = IF env.buffers = "ok"
                             THEN Response(op, 200, "") @@ [release |-> row]
                             ELSE Response(op, 500, "An error occurred")

(***************************************************************************)
(* POST /releases, historical variant: every pallet counts BOXES_PER_SKID  *)
(* boxes whatever the part's boxesPerPallet is.                            *)
(***************************************************************************)
BOXES_PER_SKID == 68

TotalUnitsFixedSkid(part, pallets, boxes) ==
  (pallets * BOXES_PER_SKID + boxes) * part.unitsPerBox

ReleasedInventoryFixedSkid(part, reqPallets, reqBoxes) ==
  LET newPallets == part.currentPallets - reqPallets
      newBoxes == part.currentBoxes - reqBoxes
  IN IF newBoxes < 0
       THEN [currentPallets |-> newPallets - 1, currentBoxes |-> newBoxes + BOXES_PER_SKID]
       ELSE [currentPallets |-> newPallets, currentBoxes |-> newBoxes]

\* storage, then buffers and email in one try, then the job-tracking webhook
BestEffortCallsFixedSkid(env) ==
  (IF env.storage = "savePackingSlip" THEN {"savePackingSlip"}
   ELSE IF env.storage = "saveBoxLabels" THEN {"savePackingSlip", "saveBoxLabels"}
   ELSE {"savePackingSlip", "saveBoxLabels", "saveInvoice"})
  \cup (IF env.buffers = "ok" THEN {"sendReleaseNotification"} ELSE {})
  \cup (IF env.impactConfigured THEN {"createImpactJob"} ELSE {})

AfterBestEffortFixedSkid(row, env) ==
  LET withUrls == IF env.storage = "ok"
                    THEN [row EXCEPT !.packingSlipUrl = "url", !.boxLabelsUrl = "url"]
                    ELSE row
  IN IF env.impactConfigured /\ env.impact = "ok"
       THEN [withUrls EXCEPT !.impactJobId = "job"]
       ELSE withUrls

CreateReleaseFixedSkid(caller, body, env) ==
  LET op == "POST /releases"
      Reject(code, error) ==
        /\ resp' = Response(op, code, error)
        /\ effects' = {}
        /\ UNCHANGED <<parts, releases, productions, everShipped, maxSeqIssued, inflight, dispatched, invoiceEmails>>
  IN
  IF ~HasBearer(caller) THEN Reject(401, "Unauthorized")
  ELSE IF TokenUser(caller) = Null THEN Reject(401, "Invalid token")
  ELSE IF MissingRequired(body)
    THEN Reject(400, "Part ID, shipping location ID, and Customer PO# are required")
  ELSE IF body.partId \notin DOMAIN parts THEN Reject(404, "Part not found")
  ELSE
    LET part == parts[body.partId]
        reqPallets == requestedPallets(body)
        reqBoxes == requestedBoxes(body)
    IN
    IF InsufficientInventory(part, reqPallets, reqBoxes)
      THEN Reject(400, "Insufficient inventory")
    ELSE IF env.dbFail = "release.create" \/ body.shippingLocationId \notin LocationIds
      THEN Reject(500, "An error occurred")
    ELSE
      LET count == Cardinality(DOMAIN releases)
          id == NewReleaseId
          row == [NewRelease(TokenUser(caller), body, part, count) EXCEPT
                    !.totalUnits = TotalUnitsFixedSkid(part, reqPallets, reqBoxes)]
          inv == ReleasedInventoryFixedSkid(part, reqPallets, reqBoxes)
      IN
      /\ count < MaxReleases
      /\ UNCHANGED <<productions, everShipped, inflight, dispatched, invoiceEmails>>
      /\ maxSeqIssued' = IF SequenceNumber(count) > maxSeqIssued
                           THEN SequenceNumber(count) ELSE maxSeqIssued
      /\ IF env.dbFail = "part.update"
           THEN /\ releases' = (id :> row) @@ releases
                /\ parts' = parts
                /\ effects' = {}
                /\ resp' = Response(op, 500, "An error occurred")
           ELSE /\ releases' = (id :> AfterBestEffortFixedSkid(row, env)) @@ releases
                /\ parts' = [parts EXCEPT ![body.partId].currentPallets = inv.currentPallets,
                                          ![body.partId].currentBoxes = inv.currentBoxes]
                /\ effects' = BestEffortCallsFixedSkid(env)
                /\ resp' = Response(op, 200, "") @@ [release |-> row]

(***************************************************************************)
(* POST /releases, historical variant: the documents, the update of the    *)
(* release with their URLs and the release email share a single try.       *)
(***************************************************************************)
\* the calls made before the first one that throws
BestEffortCallsSingleTry(env) ==
  IF env.storage = "savePackingSlip" THEN {"savePackingSlip"}
  ELSE IF env.storage = "saveBoxLabels" THEN {"savePackingSlip", "saveBoxLabels"}
  ELSE IF env.storage = "release.update"
    THEN {"savePackingSlip", "saveBoxLabels", "saveInvoice"}
  ELSE {"savePackingSlip", "saveBoxLabels", "saveInvoice", "sendReleaseNotification"}

AfterBestEffortSingleTry(row, env) ==
  IF env.storage = "ok"
    THEN [row EXCEPT !.packingSlipUrl = "url", !.boxLabelsUrl = "url"]
    ELSE row

CreateReleaseSingleTry(caller, body, env) ==
  LET op == "POST /releases"
      Reject(code, error) ==
        /\ resp' = Response(op, code, error)
        /\ effects' = {}
        /\ UNCHANGED <<parts, releases, productions, everShipped, maxSeqIssued, inflight, dispatched, invoiceEmails>>
  IN
  IF ~HasBearer(caller) THEN Reject(401, "Unauthorized")
  ELSE IF TokenUser(caller) = Null THEN Reject(401, "Invalid token")
  ELSE IF MissingRequired(body)
    THEN Reject(400, "Part ID, shipping location ID, and Customer PO# are required")
  ELSE IF body.partId \notin DOMAIN parts THEN Reject(404, "Part not found")
  ELSE
    LET part == parts[body.partId]
        reqPallets == requestedPallets(body)
        reqBoxes == requestedBoxes(body)
    IN
    IF InsufficientInventory(part, reqPallets, reqBoxes)
      THEN Reject(400, "Insufficient inventory")
    ELSE IF env.dbFail = "release.create" \/ body.shippingLocationId \notin LocationIds
      THEN Reject(500, "An error occurred")
    ELSE
      LET count == Cardinality(DOMAIN releases)
          id == NewReleaseId
          \* this variant takes no shipDate from the body
          row == [NewRelease(TokenUser(caller), body, part, count) EXCEPT !.shipDate = Null]
          inv == ReleasedInventory(part, reqPallets, reqBoxes)
      IN
      /\ count < MaxReleases
      /\ UNCHANGED <<productions, everShipped, inflight, dispatched, invoiceEmails>>
      /\ maxSeqIssued' = IF SequenceNumber(count) > maxSeqIssued
                           THEN SequenceNumber(count) ELSE maxSeqIssued
      /\ IF env.dbFail = "part.update"
           THEN /\ releases' = (id :> row) @@ releases
                /\ parts' = parts
                /\ effects' = {}
                /\ resp' = Response(op, 500, "An error occurred")
           ELSE /\ releases' = (id :> AfterBestEffortSingleTry(row, env)) @@ releases
                /\ parts' = [parts EXCEPT ![body.partId].currentPallets = inv.currentPallets,
                                          ![body.partId].currentBoxes = inv.currentBoxes]
                /\ effects' = BestEffortCallsSingleTry(env)
                /\ resp' = Response(op, 200, "") @@ [release |-> row]

(***************************************************************************)
(* PATCH /releases/{releaseId}                                             *)
(***************************************************************************)
\* mutant: a status outside the lifecycle is let through
AllowedStatuses_WithCancelled == {"COMPLETED", "SHIPPED", "CANCELLED"}

AllowedStatuses == {"COMPLETED", "SHIPPED"}

\* mutant: || for &&
PatchForbidden_Either(user, existingRelease) ==
  Role(user) # "ADMIN" \/ existingRelease.userId # user

\* user.role !== 'ADMIN' && existingRelease.userId !== user.id
PatchForbidden(user, existingRelease) ==
  Role(user) # "ADMIN" /\ existingRelease.userId # user

\* mutant: the release's own tracking number is not looked at
FirstTrackingNumber_Always(existingRelease, body) ==
  Has(body, "trackingNumber") /\ Truthy(body.trackingNumber)

\* if (body.trackingNumber && !existingRelease.trackingNumber)
FirstTrackingNumber(existingRelease, body) ==
  /\ Has(body, "trackingNumber") /\ Truthy(body.trackingNumber)
  /\ ~Truthy(existingRelease.trackingNumber)

\* mutant: the status the request names wins over the automatic SHIPPED
StatusUpdate_StatusWins(existingRelease, body) ==
  IF Has(body, "status") /\ body.status \in AllowedStatuses
    THEN [status |-> body.status]
  ELSE IF FirstTrackingNumber(existingRelease, body) THEN [status |-> "SHIPPED"]
  ELSE NoFields

\* the status the PATCH writes, as a (possibly empty) part of updateData
StatusUpdate(existingRelease, body) ==
  IF FirstTrackingNumber(existingRelease, body) THEN [status |-> "SHIPPED"]
  ELSE IF Has(body, "status") /\ body.status \in AllowedStatuses
    THEN [status |-> body.status]
  ELSE NoFields

\* mutant: the request body is merged into the update
UpdateData_MergeBody(existingRelease, body) ==
  StatusUpdate(existingRelease, body) @@ body

\* updateData: the fields the PATCH writes
UpdateData(existingRelease, body) ==
  (IF Has(body, "trackingNumber")
     THEN [trackingNumber |-> body.trackingNumber] ELSE NoFields)
  @@ (IF Has(body, "shipDate")
        THEN [shipDate |-> IF Truthy(body.shipDate) THEN body.shipDate ELSE Null]
        ELSE NoFields)
  @@ StatusUpdate(existingRelease, body)

\* prisma.release.update({ where: { id }, data })
ApplyUpdate(row, data) ==
  [f \in DOMAIN row |-> IF f \in DOMAIN data THEN data[f] ELSE row[f]]

PatchRelease(caller, releaseId, body, env) ==
  LET op == "PATCH /releases/{id}"
      Reject(code, error) ==
        /\ resp' = Response(op, code, error)
        /\ UNCHANGED <<parts, releases, everShipped>>
  IN
  /\ effects' = {}
  /\ UNCHANGED <<productions, maxSeqIssued, inflight, dispatched, invoiceEmails>>
  /\ IF ~HasBearer(caller) THEN Reject(401, "Unauthorized")
     ELSE IF TokenUser(caller) = Null THEN Reject(401, "Invalid token")
     ELSE IF releaseId \notin DOMAIN releases THEN Reject(404, "Release not found")
     ELSE IF PatchForbidden(TokenUser(caller), releases[releaseId]) THEN Reject(403, "Forbidden")
     ELSE IF env.dbFail = "release.update" THEN Reject(500, "An error occurred")
     ELSE
       LET updated == ApplyUpdate(releases[releaseId],
                                  UpdateData(releases[releaseId], body))
       IN /\ releases' = [releases EXCEPT ![releaseId] = updated]
          /\ everShipped' = IF updated.status = "SHIPPED"
                              THEN everShipped \cup {releaseId} ELSE everShipped
          /\ parts' = parts
          /\ resp' = Response(op, 200, "")

(***************************************************************************)
(* DELETE /releases/{releaseId}                                            *)
(***************************************************************************)
\* mutant: shipped releases are deleted like any other
DeleteRefused_Never(release) == FALSE

\* if (release.status === 'SHIPPED')
DeleteRefused(release) == release.status = "SHIPPED"

\* currentPallets: { increment: release.pallets }, currentBoxes: { increment: release.boxes }
RestoredInventory(part, release) ==
  [currentPallets |-> part.currentPallets + release.pallets,
   currentBoxes |-> part.currentBoxes + release.boxes]

DeleteRelease(caller, releaseId, env) ==
  LET op == "DELETE /releases/{id}"
      Reject(code, error) ==
        /\ resp' = Response(op, code, error)
        /\ UNCHANGED <<parts, releases, everShipped>>
  IN
  /\ effects' = {}
  /\ UNCHANGED <<productions, maxSeqIssued, inflight, dispatched, invoiceEmails>>
  /\ IF ~HasBearer(caller) THEN Reject(401, "Unauthorized")
     ELSE IF TokenUser(caller) = Null \/ Role(TokenUser(caller)) # "ADMIN"
       THEN Reject(403, "Admin access required")
     ELSE IF releaseId \notin DOMAIN releases THEN Reject(404, "Release not found")
     ELSE IF DeleteRefused(releases[releaseId])
       THEN Reject(400, "Cannot delete shipped releases")
     ELSE IF env.dbFail = "part.update" THEN Reject(500, "An error occurred")
     ELSE
       LET release == releases[releaseId]
           inv == RestoredInventory(parts[release.partId], release)
       IN /\ parts' = [parts EXCEPT ![release.partId].currentPallets = inv.currentPallets,
                                    ![release.partId].currentBoxes = inv.currentBoxes]
          /\ IF env.dbFail = "release.delete"
               THEN /\ UNCHANGED <<releases, everShipped>>
                    /\ resp' = Response(op, 500, "An error occurred")
               ELSE /\ releases' = [id \in DOMAIN releases \ {releaseId} |-> releases[id]]
                    /\ everShipped' = everShipped \ {releaseId}
                    /\ resp' = Response(op, 200, "")

(***************************************************************************)
(* POST /production                                                        *)
(***************************************************************************)
\* the inventory written back after a production
ProducedInventory(part, addedPallets, addedBoxes) ==
  [currentPallets |-> part.currentPallets + addedPallets,
   currentBoxes |-> part.currentBoxes + addedBoxes]

CreateProduction(caller, body, env) ==
  LET op == "POST /production"
      Reject(code, error) ==
        /\ resp' = Response(op, code, error)
        /\ UNCHANGED <<parts, productions>>
  IN
  /\ effects' = {}
  /\ UNCHANGED <<releases, everShipped, maxSeqIssued, inflight, dispatched, invoiceEmails>>
  /\ IF ~HasBearer(caller) THEN Reject(401, "Unauthorized")
     ELSE IF TokenUser(caller) = Null \/ Role(TokenUser(caller)) # "ADMIN"
       THEN Reject(403, "Unauthorized - Admin access required")
     ELSE IF ~Has(body, "partId") \/ ~Truthy(body.partId) \/ ~Has(body, "pallets")
       THEN Reject(400, "Part ID and pallets are required")
     ELSE IF body.partId \notin DOMAIN parts THEN Reject(404, "Part not found")
     ELSE IF env.dbFail = "production.create" THEN Reject(500, "An error occurred")
     ELSE
       LET part == parts[body.partId]
           addedPallets == body.pallets
           addedBoxes == IF Has(body, "boxes") THEN body.boxes ELSE 0
           row == [partId |-> body.partId, pallets |-> addedPallets,
                   boxes |-> addedBoxes,
                   totalUnits |-> TotalUnits(part, addedPallets, addedBoxes),
                   userId |-> TokenUser(caller)]
           inv == ProducedInventory(part, addedPallets, addedBoxes)
       IN /\ Len(productions) < MaxProductions
          /\ productions' = Append(productions, row)
          /\ IF env.dbFail = "part.update"
               THEN /\ parts' = parts
                    /\ resp' = Response(op, 500, "An error occurred")
               ELSE /\ parts' = [parts EXCEPT
                                   ![body.partId].currentPallets = inv.currentPallets,
                                   ![body.partId].currentBoxes = inv.currentBoxes]
                    /\ resp' = Response(op, 200, "")

(***************************************************************************)
(* PUT /parts                                                              *)
(***************************************************************************)
\* mutant: every field of the body but the id is written
PartUpdateData_AllFields(body) ==
  [f \in DOMAIN body \ {"partId"} |-> body[f]]

\* the fields of the body the handler copies into the update
PartUpdateData(body) ==
  [f \in {g \in {"boxesPerPallet", "unitsPerBox"} : Has(body, g)} |-> body[f]]

UpdatePart(caller, body, env) ==
  LET op == "PUT /parts"
      Reject(code, error) ==
        /\ resp' = Response(op, code, error)
        /\ parts' = parts
  IN
  /\ effects' = {}
  /\ UNCHANGED <<releases, productions, everShipped, maxSeqIssued, inflight, dispatched, invoiceEmails>>
  /\ IF ~HasBearer(caller) THEN Reject(401, "Unauthorized")
     ELSE IF TokenUser(caller) = Null THEN Reject(401, "Invalid token")
     ELSE IF Role(TokenUser(caller)) # "ADMIN" THEN Reject(403, "Admin access required")
     ELSE IF ~Has(body, "partId") \/ ~Truthy(body.partId)
       THEN Reject(400, "Part ID is required")
     ELSE IF body.partId \notin DOMAIN parts \/ env.dbFail = "part.update"
       THEN Reject(500, "An error occurred")
     ELSE
       LET data == PartUpdateData(body)
           updatedPart == [f \in DOMAIN parts[body.partId] |->
                             IF f \in DOMAIN data THEN data[f] ELSE parts[body.partId][f]]
       IN /\ parts' = [parts EXCEPT ![body.partId] = updatedPart]
          /\ resp' = Response(op, 200, "") @@ [part |-> updatedPart]

(***************************************************************************)
(* GET and POST /cron/send-invoices                                        *)
(***************************************************************************)
\* the request is turned away: a secret is configured and the header is not
\* exactly 'Bearer <secret>'
CronUnauthorized(authHeader, cronSecret) ==
  Truthy(cronSecret) /\ authHeader # "Bearer " \o cronSecret

InvoiceEmail(id) == "sendInvoiceReminderEmail:" \o ToString(id)

\* releases whose ship date is today and whose invoice has not been sent
ReleasesToInvoice ==
  {id \in DOMAIN releases : releases[id].shipDate = Today /\ ~releases[id].invoiceSent}

\* mutant: every release the sweep selected is marked, whatever failed
MarkInvoiceSent_All(marked) ==
  [id \in DOMAIN releases |->
     IF releases[id].shipDate = Today THEN [releases[id] EXCEPT !.invoiceSent = TRUE]
                                      ELSE releases[id]]

MarkInvoiceSent(marked) ==
  [id \in DOMAIN releases |->
     IF id \in marked THEN [releases[id] EXCEPT !.invoiceSent = TRUE] ELSE releases[id]]

\* the history after sendInvoiceReminderEmail resolved for each release of ids
EmailsAfter(ids) ==
  [once |-> invoiceEmails.once \cup ids,
   again |-> invoiceEmails.again \cup (invoiceEmails.once \cap ids)]

\* GET: the daily sweep.  cenv names the configured secret, the releases whose
\* email throws and the releases whose update throws.
SendInvoices(authHeader, cenv) ==
  LET op == "GET /cron/send-invoices"
  IN
  /\ UNCHANGED <<parts, productions, everShipped, maxSeqIssued, inflight, dispatched>>
  /\ IF CronUnauthorized(authHeader, cenv.cronSecret)
       THEN /\ resp' = Response(op, 401, "Unauthorized")
            /\ effects' = {}
            /\ releases' = releases
            /\ invoiceEmails' = invoiceEmails
     ELSE IF cenv.dbFail = "release.findMany"
       THEN /\ resp' = Response(op, 500, "An error occurred while processing invoices")
            /\ effects' = {}
            /\ releases' = releases
            /\ invoiceEmails' = invoiceEmails
     ELSE
       LET emailed == ReleasesToInvoice \ cenv.emailFails
           marked == emailed \ cenv.updateFails
       IN /\ releases' = MarkInvoiceSent(marked)
          /\ effects' = {InvoiceEmail(id) : id \in emailed}
          /\ invoiceEmails' = EmailsAfter(emailed)
          /\ resp' = Response(op, 200, "") @@
                     [results |-> [total |-> Cardinality(ReleasesToInvoice),
                                   sent |-> Cardinality(marked),
                                   failed |-> Cardinality(ReleasesToInvoice \ marked)]]

\* POST: the manual trigger for one release
SendInvoice(authHeader, body, cenv) ==
  LET op == "POST /cron/send-invoices"
      Reject(code, error) ==
        /\ resp' = Response(op, code, error)
        /\ effects' = {}
        /\ releases' = releases
        /\ invoiceEmails' = invoiceEmails
  IN
  /\ UNCHANGED <<parts, productions, everShipped, maxSeqIssued, inflight, dispatched>>
  /\ IF CronUnauthorized(authHeader, cenv.cronSecret) THEN Reject(401, "Unauthorized")
     \* the ids a body carries are row ids, none of them falsy
     ELSE IF ~Has(body, "releaseId") THEN Reject(400, "releaseId is required")
     ELSE IF body.releaseId \notin DOMAIN releases THEN Reject(404, "Release not found")
     ELSE IF releases[body.releaseId].invoiceSent
       THEN Reject(400, "Invoice already sent for this release")
     ELSE IF body.releaseId \in cenv.emailFails
       THEN Reject(500, "An error occurred while sending the invoice")
     ELSE IF body.releaseId \in cenv.updateFails
       THEN /\ resp' = Response(op, 500, "An error occurred while sending the invoice")
            /\ effects' = {InvoiceEmail(body.releaseId)}
            /\ releases' = releases
            /\ invoiceEmails' = EmailsAfter({body.releaseId})
     ELSE /\ releases' = MarkInvoiceSent({body.releaseId})
          /\ effects' = {InvoiceEmail(body.releaseId)}
          /\ invoiceEmails' = EmailsAfter({body.releaseId})
          /\ resp' = Response(op, 200, "")

(***************************************************************************)
(* The invoice handlers one await at a time: what two requests running     *)
(* together can do between each other's steps.  The cron secret is not set *)
(* in these steps, so every request passes the authorisation check.        *)
(***************************************************************************)
\* the sweep after a release is dealt with: the loop goes on, or the response
\* is returned when no selected release is left
SweepContinue(r, st) ==
  IF st.todo = {}
    THEN /\ inflight' = [inflight EXCEPT ![r] = Idle]
         /\ resp' = Response("GET /cron/send-invoices", 200, "") @@
                    [results |-> [total |-> st.total, sent |-> st.sent, failed |-> st.failed]]
    ELSE /\ inflight' = [inflight EXCEPT ![r] = st]
         /\ resp' = resp

\* GET: prisma.release.findMany
SweepFindMany(r) ==
  /\ inflight[r].pc = "idle"
  /\ SweepContinue(r, [pc |-> "sweep email", todo |-> ReleasesToInvoice,
                       total |-> Cardinality(ReleasesToInvoice), sent |-> 0, failed |-> 0])
  /\ UNCHANGED <<parts, releases, productions, effects, everShipped, maxSeqIssued,
                 dispatched, invoiceEmails>>

\* GET: sendInvoiceReminderEmail for one of the selected releases
SweepSendEmail(r, id, ok) ==
  LET st == inflight[r]
  IN
  /\ st.pc = "sweep email"
  /\ id \in st.todo
  /\ IF ok
       THEN /\ invoiceEmails' = EmailsAfter({id})
            /\ effects' = {InvoiceEmail(id)}
            /\ inflight' = [inflight EXCEPT ![r] = [st EXCEPT !.pc = "sweep update"] @@ [id |-> id]]
            /\ resp' = resp
       ELSE /\ SweepContinue(r, [st EXCEPT !.todo = @ \ {id}, !.failed = @ + 1])
            /\ UNCHANGED <<effects, invoiceEmails>>
  /\ UNCHANGED <<parts, releases, productions, everShipped, maxSeqIssued, dispatched>>

\* GET: prisma.release.update of the release whose email was sent
SweepUpdate(r, ok) ==
  LET st == inflight[r]
      rest == [pc |-> "sweep email", todo |-> st.todo \ {st.id}, total |-> st.total,
               sent |-> st.sent, failed |-> st.failed]
  IN
  /\ st.pc = "sweep update"
  /\ IF ok
       THEN /\ releases' = MarkInvoiceSent({st.id})
            /\ SweepContinue(r, [rest EXCEPT !.sent = @ + 1])
       ELSE /\ releases' = releases
            /\ SweepContinue(r, [rest EXCEPT !.failed = @ + 1])
  /\ UNCHANGED <<parts, productions, effects, everShipped, maxSeqIssued, dispatched,
                 invoiceEmails>>

\* POST: prisma.release.findUnique and the two checks on the row
TriggerFindUnique(r, body) ==
  LET op == "POST /cron/send-invoices"
  IN
  /\ inflight[r].pc = "idle"
  /\ IF body.releaseId \notin DOMAIN releases
       THEN /\ resp' = Response(op, 404, "Release not found")
            /\ inflight' = inflight
     ELSE IF releases[body.releaseId].invoiceSent
       THEN /\ resp' = Response(op, 400, "Invoice already sent for this release")
            /\ inflight' = inflight
     ELSE /\ resp' = resp
          /\ inflight' = [inflight EXCEPT ![r] = [pc |-> "trigger email", id |-> body.releaseId]]
  /\ UNCHANGED <<parts, releases, productions, effects, everShipped, maxSeqIssued,
                 dispatched, invoiceEmails>>

\* POST: sendInvoiceReminderEmail
TriggerSendEmail(r, ok) ==
  LET st == inflight[r]
  IN
  /\ st.pc = "trigger email"
  /\ IF ok
       THEN /\ invoiceEmails' = EmailsAfter({st.id})
            /\ effects' = {InvoiceEmail(st.id)}
            /\ inflight' = [inflight EXCEPT ![r] = [st EXCEPT !.pc = "trigger update"]]
            /\ resp' = resp
       ELSE /\ resp' = Response("POST /cron/send-invoices", 500,
                                "An error occurred while sending the invoice")
            /\ inflight' = [inflight EXCEPT ![r] = Idle]
            /\ UNCHANGED <<effects, invoiceEmails>>
  /\ UNCHANGED <<parts, releases, productions, everShipped, maxSeqIssued, dispatched>>

\* POST: prisma.release.update
TriggerUpdate(r, ok) ==
  LET st == inflight[r]
  IN
  /\ st.pc = "trigger update"
  /\ inflight' = [inflight EXCEPT ![r] = Idle]
  /\ IF ok
       THEN /\ releases' = MarkInvoiceSent({st.id})
            /\ resp' = Response("POST /cron/send-invoices", 200, "")
       ELSE /\ releases' = releases
            /\ resp' = Response("POST /cron/send-invoices", 500,
                                "An error occurred while sending the invoice")
  /\ UNCHANGED <<parts, productions, effects, everShipped, maxSeqIssued, dispatched,
                 invoiceEmails>>

(***************************************************************************)
(* DELETE /releases/{id} one await at a time, for an administrator's       *)
(* requests running together.                                              *)
(***************************************************************************)
\* prisma.release.findUnique and the two checks on the row
DeleteFindUnique(r, releaseId) ==
  LET op == "DELETE /releases/{id}"
  IN
  /\ inflight[r].pc = "idle"
  /\ IF releaseId \notin DOMAIN releases
       THEN /\ resp' = Response(op, 404, "Release not found")
            /\ inflight' = inflight
     ELSE IF DeleteRefused(releases[releaseId])
       THEN /\ resp' = Response(op, 400, "Cannot delete shipped releases")
            /\ inflight' = inflight
     ELSE /\ resp' = resp
          /\ inflight' = [inflight EXCEPT ![r] = [pc |-> "delete increment", id |-> releaseId,
                                                  release |-> releases[releaseId]]]
  /\ UNCHANGED <<parts, releases, productions, effects, everShipped, maxSeqIssued,
                 dispatched, invoiceEmails>>

\* prisma.part.update: the increment by the quantities of the row that was read
DeleteIncrement(r, ok) ==
  LET st == inflight[r]
      inv == RestoredInventory(parts[st.release.partId], st.release)
  IN
  /\ st.pc = "delete increment"
  /\ IF ok
       THEN /\ parts' = [parts EXCEPT ![st.release.partId].currentPallets = inv.currentPallets,
                                      ![st.release.partId].currentBoxes = inv.currentBoxes]
            /\ inflight' = [inflight EXCEPT ![r] = [st EXCEPT !.pc = "delete row"]]
            /\ resp' = resp
       ELSE /\ parts' = parts
            /\ inflight' = [inflight EXCEPT ![r] = Idle]
            /\ resp' = Response("DELETE /releases/{id}", 500, "An error occurred")
  /\ UNCHANGED <<releases, productions, effects, everShipped, maxSeqIssued, dispatched,
                 invoiceEmails>>

\* prisma.release.delete, which rejects when the row is no longer there
DeleteRow(r, ok) ==
  LET st == inflight[r]
  IN
  /\ st.pc = "delete row"
  /\ inflight' = [inflight EXCEPT ![r] = Idle]
  /\ IF ok /\ st.id \in DOMAIN releases
       THEN /\ releases' = [id \in DOMAIN releases \ {st.id} |-> releases[id]]
            /\ everShipped' = everShipped \ {st.id}
            /\ resp' = Response("DELETE /releases/{id}", 200, "")
       ELSE /\ UNCHANGED <<releases, everShipped>>
            /\ resp' = Response("DELETE /releases/{id}", 500, "An error occurred")
  /\ UNCHANGED <<parts, productions, effects, maxSeqIssued, dispatched, invoiceEmails>>

(***************************************************************************)
(* POST /production one await at a time, for an administrator's request    *)
(* running together with other requests on the part.                       *)
(***************************************************************************)
\* the checks on the body and prisma.part.findUnique
ProductionFindUnique(r, body) ==
  LET op == "POST /production"
  IN
  /\ inflight[r].pc = "idle"
  /\ IF ~Has(body, "partId") \/ ~Truthy(body.partId) \/ ~Has(body, "pallets")
       THEN /\ resp' = Response(op, 400, "Part ID and pallets are required")
            /\ inflight' = inflight
     ELSE IF body.partId \notin DOMAIN parts
       THEN /\ resp' = Response(op, 404, "Part not found")
            /\ inflight' = inflight
     ELSE /\ resp' = resp
          /\ inflight' = [inflight EXCEPT ![r] = [pc |-> "production create", body |-> body,
                                                  part |-> parts[body.partId]]]
  /\ UNCHANGED <<parts, releases, productions, effects, everShipped, maxSeqIssued,
                 dispatched, invoiceEmails>>

\* prisma.production.create
ProductionInsert(r) ==
  LET st == inflight[r]
      addedPallets == st.body.pallets
      addedBoxes == IF Has(st.body, "boxes") THEN st.body.boxes ELSE 0
  IN
  /\ st.pc = "production create"
  /\ Len(productions) < MaxProductions
  /\ productions' = Append(productions,
                           [partId |-> st.body.partId, pallets |-> addedPallets,
                            boxes |-> addedBoxes,
                            totalUnits |-> TotalUnits(st.part, addedPallets, addedBoxes),
                            userId |-> TokenUser("admin")])
  /\ inflight' = [inflight EXCEPT ![r] = [st EXCEPT !.pc = "production update"]]
  /\ UNCHANGED <<parts, releases, resp, effects, everShipped, maxSeqIssued, dispatched,
                 invoiceEmails>>

\* prisma.part.update with the quantities computed from the part as it was read
ProductionUpdate(r) ==
  LET st == inflight[r]
      inv == ProducedInventory(st.part, st.body.pallets,
                               IF Has(st.body, "boxes") THEN st.body.boxes ELSE 0)
  IN
  /\ st.pc = "production update"
  /\ parts' = [parts EXCEPT ![st.body.partId].currentPallets = inv.currentPallets,
                            ![st.body.partId].currentBoxes = inv.currentBoxes]
  /\ resp' = Response("POST /production", 200, "")
  /\ effects' = {}
  /\ inflight' = [inflight EXCEPT ![r] = Idle]
  /\ UNCHANGED <<releases, productions, everShipped, maxSeqIssued, dispatched, invoiceEmails>>

(***************************************************************************)
(* GET /parts                                                              *)
(***************************************************************************)
\* (totalUnits / annualOrder) * 100 > threshold, for a positive annualOrder
PercentOfAnnualAbove(totalUnits, annualOrder, threshold) ==
  totalUnits * 100 > threshold * annualOrder

\* mutant: the boundary 30 counts as good
StockStatus_InclusiveGood(part) ==
  LET totalBoxes == part.currentPallets * part.boxesPerPallet + part.currentBoxes
      totalUnits == totalBoxes * part.unitsPerBox
  IN IF totalUnits * 100 >= 30 * part.annualOrder THEN "good"
     ELSE IF PercentOfAnnualAbove(totalUnits, part.annualOrder, 15) THEN "low"
     ELSE "critical"

StockStatus(part) ==
  LET totalBoxes == part.currentPallets * part.boxesPerPallet + part.currentBoxes
      totalUnits == totalBoxes * part.unitsPerBox
  IN IF PercentOfAnnualAbove(totalUnits, part.annualOrder, 30) THEN "good"
     ELSE IF PercentOfAnnualAbove(totalUnits, part.annualOrder, 15) THEN "low"
     ELSE "critical"

\* one element of partsWithStatus (the rounded percentage shown with it is left out)
PartWithStatus(part) ==
  LET totalBoxes == part.currentPallets * part.boxesPerPallet + part.currentBoxes
  IN part @@ [totalBoxes |-> totalBoxes,
              totalUnits |-> totalBoxes * part.unitsPerBox,
              status |-> StockStatus(part)]

GetParts(caller) ==
  LET op == "GET /parts"
  IN
  /\ effects' = {}
  /\ UNCHANGED <<parts, releases, productions, everShipped, maxSeqIssued, inflight, dispatched, invoiceEmails>>
  /\ IF ~HasBearer(caller) THEN resp' = Response(op, 401, "Unauthorized")
     ELSE IF TokenUser(caller) = Null THEN resp' = Response(op, 401, "Invalid token")
     ELSE resp' = Response(op, 200, "") @@
                  [parts |-> [p \in DOMAIN parts |-> PartWithStatus(parts[p])]]

(***************************************************************************)
(* POST /releases, one database call at a time.  Between two awaited calls *)
(* of one request the calls of another request can run; what a request     *)
(* read stays in its local variables.  The four steps run in a row by one  *)
(* request amount to CreateRelease.                                        *)
(***************************************************************************)
\* authentication, validation, part.findUnique and the availability check
CreateCheck(r, caller, body) ==
  LET op == "POST /releases"
      Reject(code, error) ==
        /\ resp' = Response(op, code, error)
        /\ effects' = {}
        /\ inflight' = inflight
  IN
  /\ inflight[r].pc = "idle"
  /\ UNCHANGED <<parts, releases, productions, everShipped, maxSeqIssued, dispatched, invoiceEmails>>
  /\ IF ~HasBearer(caller) THEN Reject(401, "Unauthorized")
     ELSE IF TokenUser(caller) = Null THEN Reject(401, "Invalid token")
     ELSE IF MissingRequired(body)
       THEN Reject(400, "Part ID, shipping location ID, and Customer PO# are required")
     ELSE IF body.partId \notin DOMAIN parts THEN Reject(404, "Part not found")
     ELSE IF InsufficientInventory(parts[body.partId], requestedPallets(body), requestedBoxes(body))
       THEN Reject(400, "Insufficient inventory")
     ELSE /\ inflight' = [inflight EXCEPT ![r] =
                            [pc |-> "count", user |-> TokenUser(caller), body |-> body,
                             part |-> parts[body.partId]]]
          /\ UNCHANGED <<resp, effects>>

\* prisma.release.count()
CreateCount(r) ==
  /\ inflight[r].pc = "count"
  /\ inflight' = [inflight EXCEPT ![r] =
                    [pc |-> "create", count |-> Cardinality(DOMAIN releases)] @@ inflight[r]]
  /\ UNCHANGED <<parts, releases, productions, resp, effects, everShipped, maxSeqIssued, dispatched, invoiceEmails>>

\* prisma.release.create
CreateInsert(r) ==
  LET req == inflight[r]
      id == NewReleaseId
      row == NewRelease(req.user, req.body, req.part, req.count)
  IN
  /\ req.pc = "create"
  /\ Cardinality(DOMAIN releases) < MaxReleases
  /\ IF req.body.shippingLocationId \notin LocationIds
       THEN /\ resp' = Response("POST /releases", 500, "An error occurred")
            /\ effects' = {}
            /\ inflight' = [inflight EXCEPT ![r] = Idle]
            /\ UNCHANGED <<releases, maxSeqIssued>>
       ELSE /\ releases' = (id :> row) @@ releases
            /\ maxSeqIssued' = IF SequenceNumber(req.count) > maxSeqIssued
                                 THEN SequenceNumber(req.count) ELSE maxSeqIssued
            /\ inflight' = [inflight EXCEPT ![r] =
                              [pc |-> "update", id |-> id, release |-> row] @@ req]
            /\ UNCHANGED <<resp, effects>>
  /\ UNCHANGED <<parts, productions, everShipped, dispatched, invoiceEmails>>

\* prisma.part.update with the quantities computed from the part as it was
\* read, then the best-effort phase and the response
CreateCommit(r, env) ==
  LET req == inflight[r]
      inv == ReleasedInventory(req.part, requestedPallets(req.body), requestedBoxes(req.body))
  IN
  /\ req.pc = "update"
  /\ parts' = [parts EXCEPT ![req.body.partId].currentPallets = inv.currentPallets,
                            ![req.body.partId].currentBoxes = inv.currentBoxes]
  /\ releases' = [releases EXCEPT ![req.id] = AfterBestEffort(@, env)]
  /\ effects' = BestEffortCalls(env)
  /\ resp' = IF env.buffers = "ok"
               THEN Response("POST /releases", 200, "") @@ [release |-> req.release]
               ELSE Response("POST /releases", 500, "An error occurred")
  /\ inflight' = [inflight EXCEPT ![r] = Idle]
  /\ UNCHANGED <<productions, everShipped, maxSeqIssued, dispatched, invoiceEmails>>

(***************************************************************************)
(* The notification functions.  configured: the API key (SendGrid) or the  *)
(* URL and secret (webhooks) are set; transport: how the outbound call     *)
(* ends.                                                                   *)
(***************************************************************************)
Transports == {"ok", "httpError", "networkError"}

\* send...Notification / sendInvoiceReminderEmail: without an API key the
\* function logs and returns; sgMail.send rejecting is logged and thrown again
SendEmail(configured, transport) ==
  IF ~configured THEN "returns"
  ELSE IF transport = "ok" THEN "returns"
  ELSE "throws"

\* createImpactJob / createThreezPortalJob: a response that is not ok is thrown
\* inside the try, and the catch returns { success: false }
CreateJob(configured, transport) ==
  IF ~configured THEN "returns success: false"
  ELSE IF transport = "ok" THEN "returns success: true"
  ELSE "returns success: false"

Dispatch(f, configured, transport) ==
  /\ dispatched' = [dispatched EXCEPT ![f] =
                      IF f \in EmailSenders THEN SendEmail(configured, transport)
                                            ELSE CreateJob(configured, transport)]
  /\ UNCHANGED <<parts, releases, productions, resp, effects, everShipped, maxSeqIssued,
                 inflight, invoiceEmails>>

(***************************************************************************)
(* POST /releases/{releaseId}/documents and                                *)
(* POST /releases/{releaseId}/customer-packing-slip                        *)
(***************************************************************************)
DocumentTypes == {"packing-slip", "box-labels", "all"}

\* regenerate the documents of a release and store their URLs
GenerateDocuments(caller, releaseId, documentType, env) ==
  LET op == "POST /releases/{id}/documents"
      Reject(code, error) ==
        /\ resp' = Response(op, code, error)
        /\ effects' = {}
        /\ releases' = releases
      slip == documentType \in {"packing-slip", "all"}
      labels == documentType \in {"box-labels", "all"}
  IN
  /\ UNCHANGED <<parts, productions, everShipped, maxSeqIssued, inflight, dispatched, invoiceEmails>>
  /\ IF ~HasBearer(caller) THEN Reject(401, "Unauthorized")
     ELSE IF TokenUser(caller) = Null THEN Reject(401, "Invalid token")
     ELSE IF releaseId \notin DOMAIN releases THEN Reject(404, "Release not found")
     ELSE IF PatchForbidden(TokenUser(caller), releases[releaseId])
       THEN Reject(403, "Unauthorized to access this release")
     ELSE IF slip /\ env.storage = "savePackingSlip"
       THEN /\ resp' = Response(op, 500, "An error occurred while generating documents")
            /\ effects' = {"savePackingSlip"}
            /\ releases' = releases
     ELSE IF (labels /\ env.storage = "saveBoxLabels") \/ env.storage = "release.update"
       THEN /\ resp' = Response(op, 500, "An error occurred while generating documents")
            /\ effects' = (IF slip THEN {"savePackingSlip"} ELSE {})
                          \cup (IF labels THEN {"saveBoxLabels"} ELSE {})
            /\ releases' = releases
     ELSE
       LET packingSlipUrl == IF slip THEN "url" ELSE releases[releaseId].packingSlipUrl
           boxLabelsUrl == IF labels THEN "url" ELSE releases[releaseId].boxLabelsUrl
       IN /\ releases' = [releases EXCEPT ![releaseId].packingSlipUrl = packingSlipUrl,
                                          ![releaseId].boxLabelsUrl = boxLabelsUrl]
          /\ effects' = (IF slip THEN {"savePackingSlip"} ELSE {})
                        \cup (IF labels THEN {"saveBoxLabels"} ELSE {})
          /\ resp' = Response(op, 200, "") @@
                     [packingSlipUrl |-> packingSlipUrl, boxLabelsUrl |-> boxLabelsUrl]

\* store the customer's packing slip and announce it; file is Null when the
\* form has no file
UploadPackingSlip(caller, releaseId, file, env) ==
  LET op == "POST /releases/{id}/customer-packing-slip"
      Reject(code, error) ==
        /\ resp' = Response(op, code, error)
        /\ effects' = {}
        /\ releases' = releases
  IN
  /\ UNCHANGED <<parts, productions, everShipped, maxSeqIssued, inflight, dispatched, invoiceEmails>>
  /\ IF ~HasBearer(caller) THEN Reject(401, "Unauthorized")
     ELSE IF TokenUser(caller) = Null THEN Reject(401, "Invalid token")
     ELSE IF releaseId \notin DOMAIN releases THEN Reject(404, "Release not found")
     ELSE IF file = Null THEN Reject(400, "No file provided")
     ELSE IF file # "application/pdf" THEN Reject(400, "Only PDF files are accepted")
     ELSE IF env.storage # "ok"
       THEN /\ resp' = Response(op, 500, "An error occurred")
            /\ effects' = {"uploadPDF"}
            /\ releases' = releases
     ELSE /\ releases' = [releases EXCEPT ![releaseId].customerPackingSlipName = "file.pdf"]
          /\ effects' = {"uploadPDF", "sendPackingSlipReadyNotification"}
          /\ resp' = Response(op, 200, "") @@ [release |-> releases'[releaseId]]

(***************************************************************************)
(* The requests the model sends.  Spec exercises the inventory ledger:     *)
(* every quantity a request may name, against production, release and      *)
(* deletion.  SpecLifecycle exercises the release lifecycle: every PATCH   *)
(* body, by every caller, against releases of one fixed quantity.          *)
(***************************************************************************)
\* bodies without one of the required fields, or naming rows that do not exist
BadCreateBodies ==
  { [shippingLocationId |-> "loc1", customerPONumber |-> "PO1"],
    [partId |-> "p1", customerPONumber |-> "PO1"],
    [partId |-> "p1", shippingLocationId |-> "loc1"],
    [partId |-> "", shippingLocationId |-> "loc1", customerPONumber |-> "PO1"],
    [partId |-> "p1", shippingLocationId |-> "loc1", customerPONumber |-> ""],
    [partId |-> "pX", shippingLocationId |-> "loc1", customerPONumber |-> "PO1"],
    [partId |-> "p1", shippingLocationId |-> "locX", customerPONumber |-> "PO1"] }

GoodCreateBody == [partId |-> "p1", shippingLocationId |-> "loc1", customerPONumber |-> "PO1"]

\* well-formed bodies naming every quantity up to the bounds
QuantityBodies ==
  {GoodCreateBody @@ d @@ e :
     d \in Opt("pallets", 0..MaxReqPallets), e \in Opt("boxes", 0..MaxReqBoxes)}

ProductionBodies ==
  { [partId |-> "p1", pallets |-> 1], [partId |-> "p1", pallets |-> 0, boxes |-> SeedBoxesPerPallet] }

StatusBodies == {[status |-> "SHIPPED"]}

\* every tracking number with every status; the ship date; fields PATCH does not take
PatchBodies ==
  {a @@ c :
     a \in Opt("trackingNumber", {"", "T1"}),
     c \in Opt("status", {"COMPLETED", "SHIPPED", "CANCELLED"})}
  \cup { [shipDate |-> Null],
         [shipDate |-> "D2"],
         [pallets |-> 9, totalUnits |-> 9, invoiceSent |-> TRUE],
         [trackingNumber |-> "T1", shipDate |-> "D2", status |-> "SHIPPED",
          pallets |-> 9, userId |-> "cust2"] }

PatchCallers == {"anon", "badtoken", "cust1", "admin"}

\* the id of the release that is followed, and an id of no release
LifecycleIds == {1, 2}

\* the creations of the lifecycle: callers without a user, bodies that are
\* refused, and releases of one pallet and one box by a customer and by an admin
LifecycleCreations ==
  ({"anon", "badtoken"} \X {GoodCreateBody})
  \cup ({"cust1"} \X (BadCreateBodies \cup {GoodCreateBody @@ [pallets |-> 1, boxes |-> 1]}))
  \cup ({"admin"} \X {GoodCreateBody @@ [pallets |-> 1, boxes |-> 1]})

Init ==
  /\ parts = [p \in PartIds |->
               [boxesPerPallet |-> SeedBoxesPerPallet, unitsPerBox |-> SeedUnitsPerBox,
                currentPallets |-> SeedPallets, currentBoxes |-> SeedBoxes]]
  /\ releases = [id \in {} |-> Null]
  /\ productions = <<>>
  /\ resp = Response("none", 0, "")
  /\ effects = {}
  /\ everShipped = {}
  /\ maxSeqIssued = 0
  /\ inflight = [r \in Requests |-> Idle]
  /\ dispatched = [f \in DispatchFunctions |-> "none"]
  /\ invoiceEmails = [once |-> {}, again |-> {}]

Next ==
  \/ \E body \in ProductionBodies : CreateProduction("admin", body, NominalEnv)
  \/ \E body \in QuantityBodies :
       /\ \/ Cardinality(DOMAIN releases) < MaxLedgerReleases
          \/ InsufficientInventory(parts[body.partId], requestedPallets(body),
                                   requestedBoxes(body))
       /\ CreateRelease("cust1", body, NominalEnv)
  \/ \E id \in DOMAIN releases, body \in StatusBodies :
       PatchRelease("admin", id, body, NominalEnv)
  \/ \E id \in DOMAIN releases : DeleteRelease("admin", id, NominalEnv)

Spec == Init /\ [][Next]_vars

\* one release is followed at a time: a well-formed creation is sent once the
\* last release is deleted, the others at any time
NextLifecycle ==
  \/ \E c \in LifecycleCreations :
       /\ DOMAIN releases = {} \/ c[1] \notin Users \/ c[2] \in BadCreateBodies
       /\ CreateRelease(c[1], c[2], NominalEnv)
  \/ \E caller \in PatchCallers, id \in LifecycleIds, body \in PatchBodies :
       PatchRelease(caller, id, body, NominalEnv)
  \/ \E caller \in PatchCallers, id \in LifecycleIds :
       DeleteRelease(caller, id, NominalEnv)

SpecLifecycle == Init /\ [][NextLifecycle]_vars

\* SpecNumbering exercises the release counter: creations of small releases
\* and deletions of any stored release, up to MaxReleases stored rows.
NumberingBodies ==
  {GoodCreateBody @@ [pallets |-> 1] @@ e : e \in Opt("boxes", {1})}

NextNumbering ==
  \/ \E body \in NumberingBodies : CreateRelease("cust1", body, NominalEnv)
  \/ \E id \in DOMAIN releases : DeleteRelease("admin", id, NominalEnv)

SpecNumbering == Init /\ [][NextNumbering]_vars

\* SpecFaults exercises release creation in every environment of FaultEnvs.
FaultBodies == {GoodCreateBody @@ [pallets |-> 1] @@ e : e \in Opt("boxes", {1})}

NextFaults ==
  \/ \E caller \in {"cust1", "admin"}, body \in FaultBodies, env \in FaultEnvs :
       /\ Cardinality(DOMAIN releases) < MaxLedgerReleases
       /\ CreateRelease(caller, body, env)
  \/ \E id \in DOMAIN releases :
       \* a release stored without its decrement gives stock back when deleted:
       \* the deletions stop once the stock has grown by MaxProductions pallets
       /\ parts[releases[id].partId].currentPallets < SeedPallets + MaxProductions
       /\ DeleteRelease("admin", id, NominalEnv)

SpecFaults == Init /\ [][NextFaults]_vars

(***************************************************************************)
(* Part configuration: releases by both POST /releases handlers and        *)
(* productions, with PUT /parts changing the part's configuration between  *)
(* and after them.                                                         *)
(***************************************************************************)
PartConfigBodies ==
  {NoFields}
  \cup {[partId |-> "p1"] @@ a @@ b :
          a \in Opt("boxesPerPallet", {SeedBoxesPerPallet, SeedBoxesPerPallet + 1}),
          b \in Opt("unitsPerBox", {SeedUnitsPerBox, SeedUnitsPerBox + 1})}

NextPartConfig ==
  \/ \E body \in FaultBodies :
       /\ Cardinality(DOMAIN releases) < MaxLedgerReleases
       /\ CreateRelease("cust1", body, NominalEnv)
  \/ \E body \in FaultBodies :
       /\ Cardinality(DOMAIN releases) < MaxLedgerReleases
       /\ CreateReleaseFixedSkid("cust1", body, NominalEnv)
  \/ \E body \in ProductionBodies : CreateProduction("admin", body, NominalEnv)
  \/ \E caller \in {"cust1", "admin"}, body \in PartConfigBodies :
       UpdatePart(caller, body, NominalEnv)

SpecPartConfig == Init /\ [][NextPartConfig]_vars

(***************************************************************************)
(* Invoices: releases shipping today or later, the sweep and the manual    *)
(* trigger under every pairing of configured secret and header.            *)
(***************************************************************************)
CronSecrets == {Null, "", "s3cret"}
CronHeaders == {Null, "Bearer s3cret", "Bearer wrong", "s3cret"}

CronEnvs ==
  {[cronSecret |-> sec, emailFails |-> e, updateFails |-> u, dbFail |-> "none"] :
     sec \in CronSecrets, e \in {{}, {1}}, u \in {{}, {2}}}
  \cup {[cronSecret |-> "s3cret", emailFails |-> {}, updateFails |-> {},
         dbFail |-> "release.findMany"]}

CronBodies == {NoFields} \cup {[releaseId |-> id] : id \in ReleaseIds}

InvoiceCreateBodies ==
  {GoodCreateBody @@ [pallets |-> 1] @@ d : d \in Opt("shipDate", {"D2"})}

NextCron ==
  \/ \E body \in InvoiceCreateBodies :
       /\ Cardinality(DOMAIN releases) <= MaxLedgerReleases
       /\ CreateRelease("cust1", body, NominalEnv)
  \/ \E authHeader \in CronHeaders, cenv \in CronEnvs : SendInvoices(authHeader, cenv)
  \/ \E authHeader \in CronHeaders, body \in CronBodies, cenv \in CronEnvs :
       SendInvoice(authHeader, body, cenv)

SpecCron == Init /\ [][NextCron]_vars

(***************************************************************************)
(* Stock status: GET /parts against every stock level, configuration and   *)
(* annual order up to the bounds.                                          *)
(***************************************************************************)
MaxAnnualOrder == 20

InitStock ==
  /\ parts \in [PartIds ->
                 [boxesPerPallet : 1..SeedBoxesPerPallet, unitsPerBox : 1..SeedUnitsPerBox,
                  currentPallets : 0..SeedPallets, currentBoxes : 0..MaxReqBoxes,
                  annualOrder : 1..MaxAnnualOrder]]
  /\ releases = [id \in {} |-> Null]
  /\ productions = <<>>
  /\ resp = Response("none", 0, "")
  /\ effects = {}
  /\ everShipped = {}
  /\ maxSeqIssued = 0
  /\ inflight = [r \in Requests |-> Idle]
  /\ dispatched = [f \in DispatchFunctions |-> "none"]
  /\ invoiceEmails = [once |-> {}, again |-> {}]

NextStock == \E caller \in Callers : GetParts(caller)

SpecStock == InitStock /\ [][NextStock]_vars

(***************************************************************************)
(* Concurrency: two POST /releases requests interleaved at their database  *)
(* calls, each naming one pallet or leaving the quantity to the default.   *)
(***************************************************************************)
ConcurrentBodies == {GoodCreateBody @@ d : d \in Opt("pallets", {1})}

\* requests past their availability check
Pending == {r \in Requests : inflight[r].pc # "idle"}

NextConcurrent ==
  \/ \E r \in Requests, body \in ConcurrentBodies :
       /\ Cardinality(DOMAIN releases) + Cardinality(Pending) <= MaxLedgerReleases
       /\ CreateCheck(r, "cust1", body)
  \/ \E r \in Requests : CreateCount(r)
  \/ \E r \in Requests : CreateInsert(r)
  \/ \E r \in Requests : CreateCommit(r, NominalEnv)

SpecConcurrent == Init /\ [][NextConcurrent]_vars

(***************************************************************************)
(* Isolation of the best-effort channels: every POST /releases handler     *)
(* under every environment of FaultEnvs.                                   *)
(***************************************************************************)
NextIsolation ==
  \/ \E caller \in {"cust1", "admin"}, body \in FaultBodies, env \in FaultEnvs :
       /\ Cardinality(DOMAIN releases) < MaxLedgerReleases
       /\ CreateRelease(caller, body, env)
  \/ \E caller \in {"cust1", "admin"}, body \in FaultBodies, env \in FaultEnvs :
       /\ Cardinality(DOMAIN releases) < MaxLedgerReleases
       /\ CreateReleaseFixedSkid(caller, body, env)
  \/ \E caller \in {"cust1", "admin"}, body \in FaultBodies, env \in FaultEnvs :
       /\ Cardinality(DOMAIN releases) < MaxLedgerReleases
       /\ CreateReleaseSingleTry(caller, body, env)
  \/ \E id \in DOMAIN releases :
       /\ parts[releases[id].partId].currentPallets < SeedPallets + MaxProductions
       /\ DeleteRelease("admin", id, NominalEnv)

SpecIsolation == Init /\ [][NextIsolation]_vars

(***************************************************************************)
(* Notifications: every function called under every configuration and     *)
(* transport outcome.                                                      *)
(***************************************************************************)
NextDispatch ==
  \E f \in DispatchFunctions, configured \in BOOLEAN, transport \in Transports :
    Dispatch(f, configured, transport)

SpecDispatch == Init /\ [][NextDispatch]_vars

(***************************************************************************)
(* Frame of the inventory: every handler that writes, with PUT /parts      *)
(* bodies that also name the inventory fields.                             *)
(***************************************************************************)
FramePartBodies ==
  {[partId |-> "p1", currentPallets |-> 0, currentBoxes |-> 1] @@ a @@ b :
     a \in Opt("boxesPerPallet", {SeedBoxesPerPallet + 1}),
     b \in Opt("unitsPerBox", {SeedUnitsPerBox + 1})}

FramePatchBodies ==
  {[trackingNumber |-> "T1"], [status |-> "SHIPPED"], [shipDate |-> "D2"],
   [pallets |-> 9, totalUnits |-> 9, invoiceSent |-> TRUE]}

FrameEnvs == {NominalEnv, [NominalEnv EXCEPT !.storage = "saveBoxLabels"]}

FrameCronEnv ==
  [cronSecret |-> Null, emailFails |-> {}, updateFails |-> {}, dbFail |-> "none"]

NextFrame ==
  \/ \E body \in FaultBodies :
       /\ DOMAIN releases = {}
       /\ CreateRelease("cust1", body, NominalEnv)
  \/ \E body \in ProductionBodies : CreateProduction("admin", body, NominalEnv)
  \/ \E id \in DOMAIN releases : DeleteRelease("admin", id, NominalEnv)
  \/ \E caller \in {"cust1", "admin"}, body \in FramePartBodies :
       UpdatePart(caller, body, NominalEnv)
  \/ \E id \in DOMAIN releases, body \in FramePatchBodies :
       PatchRelease("cust1", id, body, NominalEnv)
  \/ \E id \in DOMAIN releases, t \in DocumentTypes, env \in FrameEnvs :
       GenerateDocuments("cust1", id, t, env)
  \/ \E id \in DOMAIN releases, file \in {Null, "application/pdf", "image/png"} :
       UploadPackingSlip("cust2", id, file, NominalEnv)
  \/ SendInvoices(Null, FrameCronEnv)
  \/ \E body \in CronBodies : SendInvoice(Null, body, FrameCronEnv)

SpecFrame == Init /\ [][NextFrame]_vars

(***************************************************************************)
(* Invoice requests running together: releases are created, and sweeps and *)
(* manual triggers take their steps in any order; an email or an update    *)
(* may fail.                                                               *)
(***************************************************************************)
NextInvoiceRace ==
  \/ \E body \in InvoiceCreateBodies :
       /\ Cardinality(DOMAIN releases) < MaxLedgerReleases
       /\ CreateRelease("cust1", body, NominalEnv)
  \/ \E r \in Requests : SweepFindMany(r)
  \/ \E r \in Requests, id \in ReleaseIds, ok \in BOOLEAN : SweepSendEmail(r, id, ok)
  \/ \E r \in Requests, ok \in BOOLEAN : SweepUpdate(r, ok)
  \/ \E r \in Requests, id \in ReleaseIds : TriggerFindUnique(r, [releaseId |-> id])
  \/ \E r \in Requests, ok \in BOOLEAN : TriggerSendEmail(r, ok)
  \/ \E r \in Requests, ok \in BOOLEAN : TriggerUpdate(r, ok)

SpecInvoiceRace == Init /\ [][NextInvoiceRace]_vars

(***************************************************************************)
(* Deletions running together: a release is created, and DELETE requests   *)
(* for it take their steps in any order; the increment or the row removal  *)
(* may fail.  A request starts only while the stock is within one          *)
(* production of the seeded stock, which keeps the state space finite.     *)
(***************************************************************************)
NextDeleteRace ==
  \/ \E body \in ConcurrentBodies :
       /\ Cardinality(DOMAIN releases) < MaxLedgerReleases
       /\ parts[body.partId].currentPallets <= SeedPallets
       /\ CreateRelease("cust1", body, NominalEnv)
  \/ \E r \in Requests, id \in ReleaseIds :
       /\ parts["p1"].currentPallets < SeedPallets + MaxProductions
       /\ DeleteFindUnique(r, id)
  \/ \E r \in Requests, ok \in BOOLEAN : DeleteIncrement(r, ok)
  \/ \E r \in Requests, ok \in BOOLEAN : DeleteRow(r, ok)

SpecDeleteRace == Init /\ [][NextDeleteRace]_vars

(***************************************************************************)
(* A production and a release creation on the same part running together,  *)
(* each taking its database calls in any order with the other's; no call   *)
(* fails.                                                                  *)
(***************************************************************************)
\* POST /production requests past their read of the part
PendingProductions == {r \in Requests : inflight[r].pc \in {"production create", "production update"}}

NextLostUpdate ==
  \/ \E r \in Requests, body \in ConcurrentBodies :
       /\ Cardinality(DOMAIN releases) + Cardinality(Pending \ PendingProductions) <= MaxLedgerReleases
       /\ CreateCheck(r, "cust1", body)
  \/ \E r \in Requests : CreateCount(r)
  \/ \E r \in Requests : CreateInsert(r)
  \/ \E r \in Requests : CreateCommit(r, NominalEnv)
  \/ \E r \in Requests, body \in ProductionBodies \cup {NoFields} :
       /\ Len(productions) + Cardinality(PendingProductions) < MaxProductions
       /\ ProductionFindUnique(r, body)
  \/ \E r \in Requests : ProductionInsert(r)
  \/ \E r \in Requests : ProductionUpdate(r)

SpecLostUpdate == Init /\ [][NextLostUpdate]_vars

(***************************************************************************)
(* Claims.                                                                 *)
(***************************************************************************)
IsResponse(r, op, code, error) == r.op = op /\ r.code = code /\ r.error = error

\* C1: a release creation that reaches the availability check (authenticated
\* caller, required fields present, part found) is answered 400 'Insufficient
\* inventory' exactly when currentPallets < requestedPallets, or currentPallets =
\* requestedPallets and currentBoxes < requestedBoxes; and a creation answered
\* that way leaves the part's inventory and the set of releases as they were.
C1_InsufficientInventoryIff ==
  [][\A body \in QuantityBodies :
       CreateRelease("cust1", body, NominalEnv) =>
         LET part == parts[body.partId]
             rejected == IsResponse(resp', "POST /releases", 400, "Insufficient inventory")
         IN /\ rejected <=>
                 \/ part.currentPallets < requestedPallets(body)
                 \/ /\ part.currentPallets = requestedPallets(body)
                    /\ part.currentBoxes < requestedBoxes(body)
            /\ rejected => parts' = parts /\ releases' = releases]_vars

\* a rejection with as many pallets on hand as requested and too few boxes
C1_Witness ==
  /\ IsResponse(resp, "POST /releases", 400, "Insufficient inventory")
  /\ parts["p1"].currentPallets = DefaultPallets
  /\ parts["p1"].currentBoxes = 0
  /\ DOMAIN releases = {}

C4_DeleteRestoresOrRefuses ==
  [][\A id \in DOMAIN releases :
       DeleteRelease("admin", id, NominalEnv) =>
         LET release == releases[id]
             before == parts[release.partId]
             after == parts'[release.partId]
         IN IF release.status # "SHIPPED"
              THEN /\ resp'.code = 200
                   /\ after.currentPallets = before.currentPallets + release.pallets
                   /\ after.currentBoxes = before.currentBoxes + release.boxes
                   /\ DOMAIN releases' = DOMAIN releases \ {id}
                   /\ \A other \in DOMAIN releases' : releases'[other] = releases[other]
              ELSE /\ IsResponse(resp', "DELETE /releases/{id}", 400,
                                 "Cannot delete shipped releases")
                   /\ releases' = releases
                   /\ parts' = parts]_vars

\* the deletion of a SHIPPED release was refused
C4_Witness ==
  /\ IsResponse(resp, "DELETE /releases/{id}", 400, "Cannot delete shipped releases")
  /\ \E id \in DOMAIN releases : releases[id].status = "SHIPPED"

\* C5: a successful PATCH that carries a non-empty trackingNumber for a release
\* without a tracking number stores status SHIPPED, whatever status the same
\* request names; a successful PATCH that carries a trackingNumber for a release
\* that has one already leaves the status as it was, unless the request names
\* COMPLETED or SHIPPED, and then stores the status it names.
C5_FirstTrackingShips ==
  [][\A caller \in PatchCallers, id \in DOMAIN releases, body \in PatchBodies :
       (PatchRelease(caller, id, body, NominalEnv) /\ resp'.code = 200) =>
         LET hadTracking == releases[id].trackingNumber \notin {Null, ""}
             namesAllowedStatus ==
               Has(body, "status") /\ body.status \in {"COMPLETED", "SHIPPED"}
         IN /\ (/\ Has(body, "trackingNumber") /\ body.trackingNumber \notin {Null, ""}
                /\ ~hadTracking)
               => releases'[id].status = "SHIPPED"
            /\ (Has(body, "trackingNumber") /\ hadTracking)
               => releases'[id].status =
                    IF namesAllowedStatus THEN body.status ELSE releases[id].status]_vars

\* a release that first got its tracking number is SHIPPED
C5_Witness ==
  /\ IsResponse(resp, "PATCH /releases/{id}", 200, "")
  /\ \E id \in DOMAIN releases :
       releases[id].trackingNumber = "T1" /\ releases[id].status = "SHIPPED"

C7_ShippedIsTerminal ==
  [][\A id \in everShipped :
       id \in DOMAIN releases' /\ releases'[id].status = "SHIPPED"]_vars

\* C7 amended: a PATCH of a SHIPPED release leaves it COMPLETED exactly when it
\* succeeds, names the status COMPLETED and does not bring the release its first
\* tracking number, and leaves it SHIPPED otherwise; a DELETE removes a release
\* only when its current status is not SHIPPED, so a release that has been
\* SHIPPED and was set back to COMPLETED is deleted with its inventory restored.
C7_ShippedUntilSetBack ==
  [][/\ \A caller \in PatchCallers, id \in DOMAIN releases, body \in PatchBodies :
          (PatchRelease(caller, id, body, NominalEnv) /\ releases[id].status = "SHIPPED")
          => /\ releases'[id].status \in {"COMPLETED", "SHIPPED"}
             /\ releases'[id].status = "COMPLETED" <=>
                  /\ resp'.code = 200
                  /\ Has(body, "status") /\ body.status = "COMPLETED"
                  /\ ~(/\ Has(body, "trackingNumber")
                       /\ body.trackingNumber \notin {Null, ""}
                       /\ releases[id].trackingNumber \in {Null, ""})
     /\ \A caller \in PatchCallers, id \in DOMAIN releases :
          DeleteRelease(caller, id, NominalEnv)
          => /\ id \notin DOMAIN releases' => releases[id].status # "SHIPPED"
             /\ (caller = "admin" /\ id \in everShipped /\ releases[id].status = "COMPLETED")
                => /\ id \notin DOMAIN releases'
                   /\ parts'[releases[id].partId].currentPallets =
                        parts[releases[id].partId].currentPallets + releases[id].pallets
                   /\ parts'[releases[id].partId].currentBoxes =
                        parts[releases[id].partId].currentBoxes + releases[id].boxes]_vars

\* a release that has been SHIPPED is COMPLETED again
C7_Witness ==
  \E id \in everShipped : id \in DOMAIN releases /\ releases[id].status = "COMPLETED"

\* C8: a PATCH by an authenticated user who is neither the creator of the release
\* nor an ADMIN is answered 403 'Forbidden' and leaves the releases as they were;
\* a PATCH by the creator or by an ADMIN is answered 200.
C8_PatchForbidden ==
  [][\A caller \in PatchCallers \cap Users, id \in DOMAIN releases, body \in PatchBodies :
       PatchRelease(caller, id, body, NominalEnv) =>
         IF caller \notin Admins /\ releases[id].userId # caller
           THEN /\ IsResponse(resp', "PATCH /releases/{id}", 403, "Forbidden")
                /\ releases' = releases
           ELSE resp'.code = 200]_vars

\* a customer was refused on a release an admin created
C8_Witness ==
  /\ IsResponse(resp, "PATCH /releases/{id}", 403, "Forbidden")
  /\ \E id \in DOMAIN releases : releases[id].userId = "admin"

\* C9: a PATCH, whatever its body holds, leaves the part inventory, the
\* productions and the set of stored releases as they were, and in the release it
\* names changes no field other than trackingNumber, shipDate and status.
C9_PatchFrame ==
  [][\A caller \in PatchCallers, id \in LifecycleIds, body \in PatchBodies :
       PatchRelease(caller, id, body, NominalEnv) =>
         /\ parts' = parts
         /\ productions' = productions
         /\ DOMAIN releases' = DOMAIN releases
         /\ \A r \in DOMAIN releases :
              /\ DOMAIN releases'[r] = DOMAIN releases[r]
              /\ \A f \in DOMAIN releases[r] \ {"trackingNumber", "shipDate", "status"} :
                   releases'[r][f] = releases[r][f]
              /\ r # id => releases'[r] = releases[r]]_vars

\* a PATCH changed the tracking number and the ship date of a release whose
\* quantities and creator are still those of its creation
C9_Witness ==
  /\ IsResponse(resp, "PATCH /releases/{id}", 200, "")
  /\ \E id \in DOMAIN releases :
       /\ releases[id].trackingNumber = "T1" /\ releases[id].shipDate = "D2"
       /\ releases[id].pallets = 1 /\ releases[id].totalUnits = TotalUnits(parts["p1"], 1, 1)
       /\ releases[id].userId = "cust1" /\ releases[id].invoiceSent = FALSE

\* C10: a release creation by a caller without a Bearer header or with a token
\* of no user, or with a body that lacks partId, shippingLocationId or
\* customerPONumber, or naming a part that does not exist, is answered 401, 400 or
\* 404 and writes nothing: the releases, the parts and the productions are as they
\* were, and no document, email or webhook call is made.
C10_RejectedCreationWritesNothing ==
  [][\A c \in LifecycleCreations :
       LET caller == c[1]
           body == c[2]
           lacks(f) == f \notin DOMAIN body \/ body[f] \in {Null, ""}
       IN (/\ CreateRelease(caller, body, NominalEnv)
           /\ \/ caller \notin Users
              \/ lacks("partId") \/ lacks("shippingLocationId") \/ lacks("customerPONumber")
              \/ body.partId \notin DOMAIN parts)
          => /\ resp'.code =
                  IF caller \notin Users THEN 401
                  ELSE IF lacks("partId") \/ lacks("shippingLocationId")
                          \/ lacks("customerPONumber") THEN 400
                  ELSE 404
             /\ releases' = releases
             /\ parts' = parts
             /\ productions' = productions
             /\ effects' = {}]_vars

\* a creation naming an unknown part was refused while an earlier release is
\* stored, and the stock is what that release left
C10_Witness ==
  /\ IsResponse(resp, "POST /releases", 404, "Part not found")
  /\ effects = {}
  /\ DOMAIN releases # {}
  /\ parts["p1"].currentPallets = SeedPallets - 2

\* C11: a successful release creation that finds N releases stored gives its new
\* release the releaseNumber REL-<date>-<N+1 in at least 4 digits, zero-padded> and
\* the ticketNumber TKT-<N+1 in at least 5 digits, zero-padded>, both with the
\* same N.
C11_NumberFromCount ==
  [][\A body \in NumberingBodies :
       (CreateRelease("cust1", body, NominalEnv) /\ resp'.code = 200) =>
         LET n == Cardinality(DOMAIN releases) + 1
             zeros4 == IF n < 10 THEN "000" ELSE IF n < 100 THEN "00"
                       ELSE IF n < 1000 THEN "0" ELSE ""
             zeros5 == IF n < 10000 THEN "0" \o zeros4 ELSE ""
         IN \A id \in DOMAIN releases' \ DOMAIN releases :
              /\ releases'[id].releaseNumber = "REL-" \o DateStr \o "-" \o zeros4 \o ToString(n)
              /\ releases'[id].ticketNumber = "TKT-" \o zeros5 \o ToString(n)]_vars

\* the third release stored carries the numbers of sequence number 3
C11_Witness ==
  /\ IsResponse(resp, "POST /releases", 200, "")
  /\ Cardinality(DOMAIN releases) = 3
  /\ \E id \in DOMAIN releases :
       /\ releases[id].releaseNumber = "REL-20250120-0003"
       /\ releases[id].ticketNumber = "TKT-00003"

\* C12 as stated: a release creation that has stored its release row and written
\* the inventory decrement answers 200 with the created release, whichever of
\* the best-effort steps (document storage, PDF buffer rendering, release email,
\* vendor email, job-tracking webhook, vendor-portal webhook) fails.
C12_SuccessAfterCommit ==
  [][\A caller \in {"cust1", "admin"}, body \in FaultBodies, env \in FaultEnvs :
       (/\ CreateRelease(caller, body, env)
        /\ DOMAIN releases' # DOMAIN releases
        /\ parts' # parts)
       => /\ resp'.code = 200
          /\ "release" \in DOMAIN resp'
          /\ \A id \in DOMAIN releases' \ DOMAIN releases :
               resp'.release.releaseNumber = releases'[id].releaseNumber]_vars

\* C13 as stated: the release in the response of a successful creation carries
\* packingSlipUrl and boxLabelsUrl when the storage step succeeded and the job id
\* when the job-tracking webhook succeeded, and lacks them only when their step
\* failed.
C13_ResponseCarriesResults ==
  [][\A caller \in {"cust1", "admin"}, body \in FaultBodies, env \in FaultEnvs :
       (CreateRelease(caller, body, env) /\ resp'.code = 200)
       => /\ env.storage = "ok" <=>
               (resp'.release.packingSlipUrl # Null /\ resp'.release.boxLabelsUrl # Null)
          /\ (env.impactConfigured /\ env.impact = "ok") <=>
               resp'.release.impactJobId # Null]_vars

\* C17 as stated: a release creation never leaves a new release row stored
\* without the inventory decrement that belongs to it.
C17_RowWithDecrement ==
  [][\A caller \in {"cust1", "admin"}, body \in FaultBodies, env \in FaultEnvs :
       (CreateRelease(caller, body, env) /\ DOMAIN releases' # DOMAIN releases)
       => \A id \in DOMAIN releases' \ DOMAIN releases :
            LET before == parts[releases'[id].partId]
                after == parts'[releases'[id].partId]
            IN (before.currentPallets * before.boxesPerPallet + before.currentBoxes)
               - (after.currentPallets * after.boxesPerPallet + after.currentBoxes)
               = releases'[id].pallets * before.boxesPerPallet + releases'[id].boxes]_vars

\* C18 as stated: the sequence number of a created release is larger than every
\* sequence number issued before it, across creations and deletions, so no two
\* releases created one after the other carry the same releaseNumber or
\* ticketNumber.
C18_MonotonicCounter ==
  [][\A body \in NumberingBodies :
       (CreateRelease("cust1", body, NominalEnv) /\ resp'.code = 200)
       => \A id \in DOMAIN releases' \ DOMAIN releases :
            /\ \A issued \in 1..maxSeqIssued :
                 /\ releases'[id].releaseNumber # ReleaseNumber(issued - 1)
                 /\ releases'[id].ticketNumber # TicketNumber(issued - 1)
            /\ \A other \in DOMAIN releases :
                 /\ releases'[id].releaseNumber # releases[other].releaseNumber
                 /\ releases'[id].ticketNumber # releases[other].ticketNumber]_vars

\* C14 as stated: every Release and Production is stored with totalUnits =
\* (pallets * boxesPerPallet + boxes) * unitsPerBox for the part's values at the
\* time of creation, and no later request, PUT /parts included, changes the
\* totalUnits of a stored row.
C14_TotalUnitsFrozen ==
  [][/\ \A id \in DOMAIN releases' \ DOMAIN releases :
          LET part == parts[releases'[id].partId]
          IN releases'[id].totalUnits =
               (releases'[id].pallets * part.boxesPerPallet + releases'[id].boxes)
               * part.unitsPerBox
     /\ \A i \in (DOMAIN productions') \ (DOMAIN productions) :
          LET part == parts[productions'[i].partId]
          IN productions'[i].totalUnits =
               (productions'[i].pallets * part.boxesPerPallet + productions'[i].boxes)
               * part.unitsPerBox
     /\ \A id \in DOMAIN releases \cap DOMAIN releases' :
          releases'[id].totalUnits = releases[id].totalUnits
     /\ \A i \in DOMAIN productions \cap DOMAIN productions' :
          productions'[i].totalUnits = productions[i].totalUnits]_vars

\* C15 as stated: the sweep (GET) and the manual trigger (POST) of
\* /cron/send-invoices process a request only when its Authorization header is
\* 'Bearer ' followed by the configured secret; every other request is answered
\* 401, sends no email and changes no release.
C15_CronRequiresSecret ==
  [][\A authHeader \in CronHeaders, cenv \in CronEnvs :
       LET matches == /\ Truthy(cenv.cronSecret)
                      /\ authHeader = "Bearer " \o cenv.cronSecret
           TurnedAway == /\ resp'.code = 401
                         /\ effects' = {}
                         /\ releases' = releases
       IN /\ SendInvoices(authHeader, cenv) => (matches \/ TurnedAway)
          /\ \A body \in CronBodies :
               SendInvoice(authHeader, body, cenv) => (matches \/ TurnedAway)]_vars

\* C16: GET /parts reports for each part totalUnits = (currentPallets *
\* boxesPerPallet + currentBoxes) * unitsPerBox and classifies it by totalUnits /
\* annualOrder: good above 3/10, low above 3/20 and up to 3/10, critical up to
\* 3/20, so that exactly 30 percent is low and exactly 15 percent is critical.
C16_StockStatus ==
  [][\A caller \in Callers :
       (GetParts(caller) /\ resp'.code = 200)
       => \A p \in DOMAIN parts :
            LET t == (parts[p].currentPallets * parts[p].boxesPerPallet
                      + parts[p].currentBoxes) * parts[p].unitsPerBox
                a == parts[p].annualOrder
                status == resp'.parts[p].status
            IN /\ resp'.parts[p].totalUnits = t
               /\ status \in {"good", "low", "critical"}
               /\ status = "good" <=> 10 * t > 3 * a
               /\ status = "low" <=> (20 * t > 3 * a /\ 10 * t <= 3 * a)
               /\ status = "critical" <=> 20 * t <= 3 * a]_vars

\* a part holding exactly 30 percent of its annual order was reported low
C16_Witness ==
  /\ IsResponse(resp, "GET /parts", 200, "")
  /\ \E p \in DOMAIN parts :
       /\ 10 * resp.parts[p].totalUnits = 3 * parts[p].annualOrder
       /\ resp.parts[p].totalUnits > 0
       /\ resp.parts[p].status = "low"

\* boxes a part holds, counting every pallet as boxesPerPallet boxes
StockBoxes(part) == part.currentPallets * part.boxesPerPallet + part.currentBoxes

\* boxes of the part the stored releases took
RECURSIVE ReleasedBoxes(_, _)
ReleasedBoxes(p, ids) ==
  IF ids = {} THEN 0
  ELSE LET id == CHOOSE i \in ids : TRUE
       IN (IF releases[id].partId = p
             THEN releases[id].pallets * parts[p].boxesPerPallet + releases[id].boxes
             ELSE 0)
          + ReleasedBoxes(p, ids \ {id})

\* C19: with release creations interleaved at their database calls, every
\* request past its availability check was covered by the stock it read, and the
\* part's stock is never reduced by more than the stored releases took; two
\* requests can both pass the check on the same stock, so that both releases are
\* stored although the stock covered one of them and the ledger was reduced by
\* less than they took together (C19_Witness).
C19_CheckedAgainstStockRead ==
  /\ \A r \in Pending :
       LET req == inflight[r]
       IN StockBoxes(req.part) >=
            requestedPallets(req.body) * req.part.boxesPerPallet + requestedBoxes(req.body)
  /\ \A p \in DOMAIN parts :
       (SeedPallets * SeedBoxesPerPallet + SeedBoxes) - StockBoxes(parts[p])
         <= ReleasedBoxes(p, DOMAIN releases)

\* both requests answered, two releases stored that took more than the stock
\* there ever was, the ledger reduced by less than they took
C19_Witness ==
  /\ Pending = {}
  /\ Cardinality(DOMAIN releases) = 2
  /\ IsResponse(resp, "POST /releases", 200, "")
  /\ \E p \in DOMAIN parts :
       /\ ReleasedBoxes(p, DOMAIN releases) > SeedPallets * SeedBoxesPerPallet + SeedBoxes
       /\ (SeedPallets * SeedBoxesPerPallet + SeedBoxes) - StockBoxes(parts[p])
            < ReleasedBoxes(p, DOMAIN releases)
       /\ \A id \in DOMAIN releases :
            releases[id].pallets * parts[p].boxesPerPallet + releases[id].boxes
              <= SeedPallets * SeedBoxesPerPallet + SeedBoxes

\* the release number and ticket number made from sequence number n (below 10)
NumbersOf(n) ==
  [releaseNumber |-> "REL-" \o DateStr \o "-000" \o ToString(n),
   ticketNumber |-> "TKT-0000" \o ToString(n)]

\* C20: with release creations interleaved at their database calls and no
\* deletion, every stored release carries the release number and the ticket
\* number of one sequence number between 1 and the number of stored releases;
\* two requests can read the same count, so that two stored releases carry the
\* same releaseNumber and the same ticketNumber (C20_Witness).
C20_NumbersFromCountRead ==
  \A id \in DOMAIN releases :
    \E n \in 1..Cardinality(DOMAIN releases) :
      /\ releases[id].releaseNumber = NumbersOf(n).releaseNumber
      /\ releases[id].ticketNumber = NumbersOf(n).ticketNumber

\* two stored releases with one releaseNumber and one ticketNumber
C20_Witness ==
  \E a, b \in DOMAIN releases :
    /\ a # b
    /\ releases[a].releaseNumber = releases[b].releaseNumber
    /\ releases[a].ticketNumber = releases[b].ticketNumber
    /\ Cardinality(DOMAIN releases) = 2
    /\ \E n \in 1..2 : releases[a].releaseNumber = NumbersOf(n).releaseNumber

\* what C21 asks of one committed creation: the release email is attempted
\* although document storage failed, the job-tracking webhook (where the handler
\* has one and it is configured) is attempted although the release email failed,
\* and the stored quantities and the part's inventory are the committed ones
ChannelsIsolated(body, env, hasWebhook, inv) ==
  /\ env.storage # "ok" => "sendReleaseNotification" \in effects'
  /\ (hasWebhook /\ env.email # "ok" /\ env.impactConfigured)
       => "createImpactJob" \in effects'
  /\ \A id \in DOMAIN releases' \ DOMAIN releases :
       /\ releases'[id].pallets = requestedPallets(body)
       /\ releases'[id].boxes = requestedBoxes(body)
  /\ parts'[body.partId].currentPallets = inv.currentPallets
  /\ parts'[body.partId].currentBoxes = inv.currentBoxes

\* C21 as stated: in every release creation that committed its row and its
\* decrement, a failure of document storage does not keep the release email from
\* being attempted, a failure of the release email does not keep the
\* job-tracking webhook from being attempted, and no best-effort failure changes
\* the committed release quantities or the part's inventory.
C21_ChannelsIsolated ==
  [][\A caller \in {"cust1", "admin"}, body \in FaultBodies,
        env \in {f \in FaultEnvs : f.dbFail = "none" /\ f.buffers = "ok"} :
       LET part == parts[body.partId]
           rp == requestedPallets(body)
           rb == requestedBoxes(body)
       IN /\ (CreateRelease(caller, body, env) /\ DOMAIN releases' # DOMAIN releases)
               => ChannelsIsolated(body, env, TRUE, ReleasedInventory(part, rp, rb))
          /\ (CreateReleaseFixedSkid(caller, body, env) /\ DOMAIN releases' # DOMAIN releases)
               => ChannelsIsolated(body, env, TRUE, ReleasedInventoryFixedSkid(part, rp, rb))
          /\ (CreateReleaseSingleTry(caller, body, env) /\ DOMAIN releases' # DOMAIN releases)
               => ChannelsIsolated(body, env, FALSE, ReleasedInventory(part, rp, rb))]_vars

\* C22 as stated: a call of a notification function (an email sender or one of
\* the two 'create job' webhook clients) whose transport fails raises to the
\* caller, and a call whose transport succeeds completes; no function returns
\* normally from a transport failure.
C22_DispatchRaises ==
  [][\A f \in DispatchFunctions, transport \in Transports :
       Dispatch(f, TRUE, transport)
       => IF transport = "ok" THEN dispatched'[f] \in {"returns", "returns success: true"}
                              ELSE dispatched'[f] = "throws"]_vars

\* C23: a sweep that is let in selects the releases shipping today whose invoice
\* is not sent, reports total = their number and sent + failed = total, sets
\* invoiceSent on exactly the selected releases whose email and flag update both
\* succeeded, attempts the email of every selected release whatever happened to
\* the others, and leaves every other release as it was.
C23_SweepPerRelease ==
  [][\A authHeader \in CronHeaders, cenv \in CronEnvs :
       (SendInvoices(authHeader, cenv) /\ resp'.code = 200)
       => LET selected == {id \in DOMAIN releases :
                             releases[id].shipDate = Today /\ ~releases[id].invoiceSent}
              ok == {id \in selected : id \notin cenv.emailFails /\ id \notin cenv.updateFails}
          IN /\ resp'.results.total = Cardinality(selected)
             /\ resp'.results.sent + resp'.results.failed = resp'.results.total
             /\ resp'.results.sent = Cardinality(ok)
             /\ DOMAIN releases' = DOMAIN releases
             /\ \A id \in selected : releases'[id].invoiceSent <=> id \in ok
             /\ \A id \in DOMAIN releases \ ok : releases'[id] = releases[id]
             /\ \A id \in selected \ cenv.emailFails : InvoiceEmail(id) \in effects']_vars

\* a sweep over two selected releases failed on the first and invoiced the second
C23_Witness ==
  /\ IsResponse(resp, "GET /cron/send-invoices", 200, "")
  /\ resp.results = [total |-> 2, sent |-> 1, failed |-> 1]
  /\ DOMAIN releases = {1, 2}
  /\ ~releases[1].invoiceSent /\ releases[1].shipDate = Today
  /\ releases[2].invoiceSent
  /\ effects = {InvoiceEmail(2)}

\* C24: whenever a part's currentPallets or currentBoxes changes, the request
\* handled was a production creation, a release creation or a release deletion;
\* PUT /parts (also with currentPallets and currentBoxes in its body), PATCH on
\* a release, document generation, upload and the invoice endpoints leave both
\* fields as they were.
C24_InventoryWriters ==
  [][(\E p \in DOMAIN parts :
        \/ parts'[p].currentPallets # parts[p].currentPallets
        \/ parts'[p].currentBoxes # parts[p].currentBoxes)
     => resp'.op \in {"POST /production", "POST /releases", "DELETE /releases/{id}"}]_vars

\* PUT /parts was answered 200 for a body naming currentPallets 0, after a
\* release took a pallet: the configuration changed and the inventory stands
C24_Witness ==
  /\ IsResponse(resp, "PUT /parts", 200, "")
  /\ \E p \in DOMAIN parts :
       /\ parts[p].currentPallets = SeedPallets - 1
       /\ parts[p].boxesPerPallet = SeedBoxesPerPallet + 1
       /\ resp.part = parts[p]
  /\ DOMAIN releases # {}

\* boxes of the part the first n productions added
RECURSIVE ProducedBoxes(_, _)
ProducedBoxes(p, n) ==
  IF n = 0 THEN 0
  ELSE (IF productions[n].partId = p
          THEN productions[n].pallets * parts[p].boxesPerPallet + productions[n].boxes
          ELSE 0)
       + ProducedBoxes(p, n - 1)

\* C25 as stated: with no request running concurrently and boxesPerPallet
\* unchanged, currentPallets * boxesPerPallet + currentBoxes of a part equals its
\* initial box total plus the boxes of all productions minus the boxes of the
\* releases that still exist.
C25_Conservation ==
  \A p \in DOMAIN parts :
    StockBoxes(parts[p]) =
      (SeedPallets * SeedBoxesPerPallet + SeedBoxes)
      + ProducedBoxes(p, Len(productions))
      - ReleasedBoxes(p, DOMAIN releases)

\* C26 as stated: with non-negative integer request quantities and a
\* non-negative seeded inventory, no sequence of whole requests leaves a part's
\* currentPallets or currentBoxes below zero.
C26_NeverNegative ==
  \A p \in DOMAIN parts :
    parts[p].currentPallets >= 0 /\ parts[p].currentBoxes >= 0

\* C27 as stated: whatever the order in which sweeps and manual triggers take
\* their steps, no release has an invoice email sent for it more than once.
C27_OneInvoiceEmail ==
  invoiceEmails.again = {}

\* C28 as stated: whatever the order in which DELETE requests for a release
\* take their steps, and whether or not a row removal fails, what the release
\* took from the part is given back at most once: the part's stock never
\* exceeds the seeded stock plus the productions.
C28_RestoredAtMostOnce ==
  \A p \in DOMAIN parts :
    StockBoxes(parts[p]) <= (SeedPallets * SeedBoxesPerPallet + SeedBoxes) + ProducedBoxes(p, Len(productions))

\* C29 as stated: when a production and a release creation (or two productions)
\* on the same part have run together and both have ended, the part's stock
\* shows both: it is the seeded stock plus the productions minus the releases.
C29_BothDeltasKept ==
  Pending = {}
  => \A p \in DOMAIN parts :
       StockBoxes(parts[p]) = (SeedPallets * SeedBoxesPerPallet + SeedBoxes) + ProducedBoxes(p, Len(productions)) - ReleasedBoxes(p, DOMAIN releases)

\* C30: with non-negative integer quantities every stored release has
\* pallets >= 1; a creation whose pallets field is absent or 0 is checked for
\* availability as 5 pallets plus the requested boxes, and when it succeeds the
\* row is stored with pallets 5 and the part is charged for 5 pallets plus the
\* boxes, so no release of 0 pallets is stored.
C30_DefaultPallets ==
  [][/\ \A id \in DOMAIN releases' : releases'[id].pallets >= 1
     /\ \A body \in QuantityBodies :
          ((~Has(body, "pallets") \/ body.pallets = 0) /\ CreateRelease("cust1", body, NominalEnv))
          => LET part == parts[body.partId]
                 boxes == IF Has(body, "boxes") THEN body.boxes ELSE 0
                 inv == ReleasedInventory(part, DefaultPallets, boxes)
             IN IF InsufficientInventory(part, DefaultPallets, boxes)
                  THEN /\ IsResponse(resp', "POST /releases", 400, "Insufficient inventory")
                       /\ releases' = releases
                       /\ parts' = parts
                  ELSE /\ resp'.code = 200
                       /\ releases'[NewReleaseId].pallets = DefaultPallets
                       /\ releases'[NewReleaseId].boxes = boxes
                       /\ parts'[body.partId].currentPallets = inv.currentPallets
                       /\ parts'[body.partId].currentBoxes = inv.currentBoxes]_vars

\* after a production, a request for boxes alone was stored as 5 pallets and
\* those boxes
C30_Witness ==
  /\ IsResponse(resp, "POST /releases", 200, "")
  /\ Len(productions) > 0
  /\ \E id \in DOMAIN releases :
       releases[id].pallets = DefaultPallets /\ releases[id].boxes > 0

====
